---- MODULE Spec2Model ----
(***************************************************************************)
(* Ragnetic RAG evidence pipeline: context assembly, chunking, hybrid      *)
(* retrieval, document ingestion, query expansion, citation and            *)
(* faithfulness post-processing, the chat flows, the embedding namespace   *)
(* of a knowledge base with its migration task, and the asynchronous chat  *)
(* jobs, modelled from backend/app.                                        *)
(*                                                                         *)
(* Text is a sequence of one-character strings.  Floats are modelled by    *)
(* exact integers or integer fractions (ratios in hundredths, RRF weights  *)
(* over a common denominator).                                             *)
(***************************************************************************)
EXTENDS Integers, Sequences, FiniteSets, TLC

VARIABLES ctx, chk, ret, ing, qx, post, chat, kb, cjob

vars == <<ctx, chk, ret, ing, qx, post, chat, kb, cjob>>

(***************************************************************************)
(* Python built-ins on text and numbers                                    *)
(***************************************************************************)
Min(a, b) == IF a <= b THEN a ELSE b
Max(a, b) == IF a >= b THEN a ELSE b

\* characters matched by [A-Za-z0-9_]
WordChars ==
    {"a", "b", "c", "d", "e", "f", "g", "h", "i", "j", "k", "l", "m",
     "n", "o", "p", "q", "r", "s", "t", "u", "v", "w", "x", "y", "z",
     "A", "B", "C", "D", "E", "F", "G", "H", "I", "J", "K", "L", "M",
     "N", "O", "P", "Q", "R", "S", "T", "U", "V", "W", "X", "Y", "Z",
     "0", "1", "2", "3", "4", "5", "6", "7", "8", "9", "_"}
\* characters matched by \s
WsChars == {" ", "\n"}
\* characters matched by [.!?]
PunctChars == {".", "!", "?"}

\* a local name: F applied to the value of x, which is computed once
Let(x, F(_)) == F(x)

\* the indices 1..n in order
Idx(n) == [i \in 1..n |-> i]

\* the indices of s that satisfy Test, in increasing order
Where(s, Test(_)) == SelectSeq(Idx(Len(s)), Test)

\* str.strip()
strip(s) ==
    Let(Where(s, LAMBDA i : s[i] \notin WsChars),
        LAMBDA keep : IF keep = <<>> THEN <<>> ELSE SubSeq(s, keep[1], keep[Len(keep)]))

\* s[:n] for n >= 0
Prefix(s, n) == SubSeq(s, 1, Min(n, Len(s)))

\* s[-n:] for n > 0
Suffix(s, n) == SubSeq(s, Max(1, Len(s) - n + 1), Len(s))

\* n copies of unit, concatenated
Rep(unit, n) == [i \in 1..(n * Len(unit)) |-> unit[((i - 1) % Len(unit)) + 1]]

\* the <<first, last>> index pairs of the maximal runs of indices of s that
\* satisfy In, in order
RunBounds(s, In(_)) ==
    Let(Where(s, LAMBDA i : In(i) /\ (i = 1 \/ ~In(i - 1))), LAMBDA starts :
    Let(Where(s, LAMBDA i : In(i) /\ (i = Len(s) \/ ~In(i + 1))), LAMBDA ends :
        <<>> \o [k \in 1..Len(starts) |-> <<starts[k], ends[k]>>]))

\* the maximal runs of s over the indices that satisfy In, in order
Runs(s, In(_)) ==
    Let(RunBounds(s, In), LAMBDA rb :
        <<>> \o [k \in 1..Len(rb) |-> SubSeq(s, rb[k][1], rb[k][2])])

\* TOKEN_RE.findall(s): the maximal runs of word characters, in order
Words(s) == Runs(s, LAMBDA i : s[i] \in WordChars)

\* len(TOKEN_RE.findall(s))
CountWords(s) ==
    Cardinality({i \in 1..Len(s) : s[i] \in WordChars /\ (i = 1 \/ s[i - 1] \notin WordChars)})

\* s.rsplit(" ", 1)[0]
RsplitHead(s) ==
    Let(Where(s, LAMBDA i : s[i] = " "),
        LAMBDA sp : IF sp = <<>> THEN s ELSE SubSeq(s, 1, sp[Len(sp)] - 1))

\* str.lower() on one character
LowerOf ==
    [A |-> "a", B |-> "b", C |-> "c", D |-> "d", E |-> "e", F |-> "f", G |-> "g", H |-> "h", I |-> "i", J |-> "j", K |-> "k", L |-> "l", M |-> "m",
     N |-> "n", O |-> "o", P |-> "p", Q |-> "q", R |-> "r", S |-> "s", T |-> "t", U |-> "u", V |-> "v", W |-> "w", X |-> "x", Y |-> "y", Z |-> "z"]

Lower(c) == IF c \in DOMAIN LowerOf THEN LowerOf[c] ELSE c

LowerStr(s) == [i \in 1..Len(s) |-> Lower(s[i])]

\* [p.strip() for p in pieces if p.strip()]
StripNonEmpty(pieces) ==
    SelectSeq([k \in 1..Len(pieces) |-> strip(pieces[k])], LAMBDA p : p # <<>>)

\* [p.strip() for p in RE.split(s) if p.strip()] for RE = (?<=[.!?])\s+ and,
\* when newlines is TRUE, RE = (?<=[.!?])\s+|\n+ : a match of the first
\* alternative is a whole whitespace run that follows [.!?]; every newline
\* outside such a run is in a match of the second alternative
SplitSentences(s, newlines) ==
    Let(RunBounds(s, LAMBDA i : s[i] \in WsChars), LAMBDA ws :
    Let(UNION {ws[k][1]..ws[k][2] :
                 k \in {n \in 1..Len(ws) : ws[n][1] > 1 /\ s[ws[n][1] - 1] \in PunctChars}},
        LAMBDA afterPunct :
        StripNonEmpty(Runs(s, LAMBDA i : ~(i \in afterPunct \/ (newlines /\ s[i] = "\n"))))))

\* sep.join(parts)
RECURSIVE JoinRange(_, _, _, _)
JoinRange(parts, sep, lo, hi) ==
    IF lo > hi THEN <<>>
    ELSE IF lo = hi THEN parts[lo]
    ELSE JoinRange(parts, sep, lo, (lo + hi) \div 2) \o sep
         \o JoinRange(parts, sep, (lo + hi) \div 2 + 1, hi)

Join(parts, sep) == JoinRange(parts, sep, 1, Len(parts))

\* unit in text
Contains(text, unit) ==
    \E i \in 1..(Len(text) - Len(unit) + 1) : SubSeq(text, i, i + Len(unit) - 1) = unit

\* str(n) for n >= 0
RECURSIVE Decimal(_)
Decimal(n) ==
    IF n < 10 THEN <<<<"0">>, <<"1">>, <<"2">>, <<"3">>, <<"4">>,
                     <<"5">>, <<"6">>, <<"7">>, <<"8">>, <<"9">>>>[n + 1]
    ELSE Decimal(n \div 10) \o Decimal(n % 10)

\* int(digits) for a non-empty run of decimal digits
RECURSIVE ParseInt(_)
ParseInt(digits) ==
    IF digits = <<>> THEN 0
    ELSE 10 * ParseInt(SubSeq(digits, 1, Len(digits) - 1))
         + (CHOOSE d \in 0..9 : Decimal(d) = <<digits[Len(digits)]>>)

\* sorted(set of integers)
SortedSeq(numbers) ==
    [k \in 1..Cardinality(numbers) |->
        CHOOSE n \in numbers : Cardinality({m \in numbers : m < n}) = k - 1]

\* sorted(s, ...): a stable sort, Before(x, y) saying that x sorts strictly
\* before y; elements that compare equal keep their input order
StableSort(s, Before(_, _)) ==
    LET pos(i) == 1 + Cardinality({j \in 1..Len(s) :
                        j # i /\ (Before(s[j], s[i]) \/ (~Before(s[i], s[j]) /\ j < i))})
    IN <<>> \o [k \in 1..Len(s) |-> s[CHOOSE i \in 1..Len(s) : pos(i) = k]]

(***************************************************************************)
(* services/context.py                                                     *)
(***************************************************************************)
CharsPerToken == 4
TruncateMinChars == 24
MinTokensFloor == 24
CharLimitFloor == 120
ContextTokensFloor == 1024
LengthBonusTokens == 24

approximate_token_count(text) ==
    Let(strip(text), LAMBDA normalized :
        IF normalized = <<>> THEN 0
        ELSE Max(Max(1, Len(normalized) \div CharsPerToken), CountWords(normalized)))

Ellipsis == <<".", ".", ".">>

_truncate_to_token_budget(text, max_tokens) ==
    Let(strip(text), LAMBDA normalized :
        IF normalized = <<>> \/ max_tokens <= 0 THEN <<>>
        ELSE IF approximate_token_count(normalized) <= max_tokens THEN normalized
        ELSE Let(strip(Prefix(normalized, Max(TruncateMinChars, max_tokens * CharsPerToken))),
                 LAMBDA cut :
             Let(IF \E i \in 1..Len(cut) : cut[i] = " " THEN strip(RsplitHead(cut)) ELSE cut,
                 LAMBDA trimmed : (IF trimmed = <<>> THEN cut ELSE trimmed) \o Ellipsis)))

_sentence_chunks(text) == SplitSentences(text, TRUE)

_query_terms(query) ==
    Let(Words(query), LAMBDA w : {LowerStr(w[i]) : i \in {k \in 1..Len(w) : Len(w[k]) > 2}})

\* _relevance_score as the exact fraction num / den:
\* 2.0 * overlap + 2.5 * overlap / n + min(1.0, n / 24.0) over den = 24 * n
_relevance_score(sentence, terms) ==
    Let(Words(sentence), LAMBDA tokens :
    Let(Cardinality({i \in 1..Len(tokens) : LowerStr(tokens[i]) \in terms}), LAMBDA overlap :
        IF Len(tokens) = 0 THEN [num |-> 0, den |-> 1]
        ELSE [num |-> 2 * LengthBonusTokens * overlap * Len(tokens) + 60 * overlap
                      + Min(LengthBonusTokens, Len(tokens)) * Len(tokens),
              den |-> LengthBonusTokens * Len(tokens)]))

\* the selection loop of _compress_snippet over ranked[i..]; every item of
\* ranked carries its score, index, sentence and the sentence's token count
RECURSIVE SelectSentences(_, _, _, _, _, _, _)
SelectSentences(ranked, i, selected, selected_tokens, max_tokens, min_tokens, target_tokens) ==
    IF i > Len(ranked) THEN selected
    ELSE IF \/ ranked[i].tokens <= 0
            \/ (ranked[i].score.num <= 0 /\ selected_tokens >= min_tokens)
            \/ (selected_tokens + ranked[i].tokens > max_tokens /\ selected_tokens >= min_tokens)
         THEN SelectSentences(ranked, i + 1, selected, selected_tokens,
                              max_tokens, min_tokens, target_tokens)
    ELSE IF selected_tokens + ranked[i].tokens >= target_tokens
         THEN selected \cup {ranked[i].idx}
    ELSE SelectSentences(ranked, i + 1, selected \cup {ranked[i].idx},
                         selected_tokens + ranked[i].tokens,
                         max_tokens, min_tokens, target_tokens)

\* ranked.sort(key=lambda item: (item[0], -item[1]), reverse=True)
RankSentences(sentences, terms) ==
    StableSort(<<>> \o [i \in 1..Len(sentences) |->
                   [score |-> _relevance_score(sentences[i], terms), idx |-> i,
                    tokens |-> approximate_token_count(sentences[i])]],
               LAMBDA x, y : x.score.num * y.score.den > y.score.num * x.score.den)

\* " ".join(sentences[idx] for idx in sorted(selected)), truncated
JoinSelected(sentences, selected, max_tokens) ==
    Let(Where(sentences, LAMBDA i : i \in selected), LAMBDA pick :
        _truncate_to_token_budget(
            strip(Join([k \in 1..Len(pick) |-> sentences[pick[k]]], <<" ">>)), max_tokens))

\* lines 75-117 of _compress_snippet, compression enabled
CompressSentences(normalized, baseline, query, max_tokens, min_tokens, ratio) ==
    Let(approximate_token_count(normalized), LAMBDA original_tokens :
        IF original_tokens <= max_tokens THEN [snippet |-> normalized, compressed |-> FALSE]
        ELSE Let(_sentence_chunks(normalized), LAMBDA sentences :
             IF Len(sentences) <= 1
             THEN [snippet |-> baseline, compressed |-> baseline # normalized]
             ELSE Let(SelectSentences(RankSentences(sentences, _query_terms(query)), 1, {}, 0,
                          max_tokens, min_tokens,
                          Max(min_tokens, Min(max_tokens, (original_tokens * ratio) \div 100))),
                      LAMBDA selected :
                  IF selected = {}
                  THEN [snippet |-> baseline, compressed |-> baseline # normalized]
                  ELSE Let(JoinSelected(sentences, selected, max_tokens), LAMBDA compressed :
                           [snippet |-> compressed, compressed |-> compressed # normalized]))))

\* returns [snippet, compressed]; st holds the chat_context_* settings
_compress_snippet(snippet, query, max_tokens, min_tokens, st) ==
    Let(strip(snippet), LAMBDA normalized :
        IF normalized = <<>> THEN [snippet |-> <<>>, compressed |-> FALSE]
        ELSE Let(_truncate_to_token_budget(normalized, max_tokens), LAMBDA baseline :
             IF ~st.chat_context_compression_enabled
             THEN [snippet |-> baseline, compressed |-> baseline # normalized]
             ELSE CompressSentences(normalized, baseline, query, max_tokens, min_tokens,
                      Max(25, Min(100, st.chat_context_compression_target_ratio)))))

\* the candidates left in score order
_lost_middle_order_sorted(candidates) == candidates

\* candidates[0::2] followed by candidates[1::2] reversed
_lost_middle_order(candidates) ==
    [k \in 1..Len(candidates) |->
        IF k <= (Len(candidates) + 1) \div 2 THEN candidates[2 * k - 1]
        ELSE candidates[2 * (Len(candidates) - k + 1)]]

\* decimal digits of a positive number below 10, as text
Digit(n) == <<<<"1">>, <<"2">>, <<"3">>, <<"4">>, <<"5">>, <<"6">>, <<"7">>, <<"8">>, <<"9">>>>[n]

\* "\n\n---\n\n".join(f"[Source {idx + 1}]\n{snippet}" ...) over the chosen
\* sources whose snippet is not blank
ContextBlocks(chosen) ==
    Let(Where(chosen, LAMBDA k : strip(chosen[k].snippet) # <<>>), LAMBDA shown :
        Join([j \in 1..Len(shown) |->
                 <<"[", "S", "o", "u", "r", "c", "e", " ">> \o Digit(shown[j]) \o <<"]", "\n">>
                 \o strip(chosen[shown[j]].snippet)],
             <<"\n", "\n", "-", "-", "-", "\n", "\n">>))

(* ------------------------- model bounds ------------------------------- *)
MaxCands == 3
DenseWords == 26
LongSentences == 14

\* snippets the retrieved candidates carry: blank, short, more words than
\* MinTokensFloor tokens, and many sentences over more than CharLimitFloor characters
CtxSnippets ==
    { <<" ", "\n">>,
      <<"a", "b", "c", ".">>,
      Rep(<<"a", " ">>, DenseWords),
      Rep(<<"a", "b", "c", " ", "a", " ", "b", ".", " ">>, LongSentences) }

CtxCandidates == [snippet : CtxSnippets, score : {1, 2}]

\* lists of at most n distinct candidates
CandLists(n) ==
    UNION {{c \in [1..k -> CtxCandidates] : \A i, j \in 1..k : i # j => c[i] # c[j]} : k \in 0..n}

CtxSettings ==
    [chat_model_context_tokens : {1024},
     chat_context_budget_ratio : {25},
     chat_context_reserved_tokens : {0, 232},
     chat_context_min_tokens_per_source : {24},
     chat_context_max_tokens_per_source : {40},
     chat_context_compression_enabled : BOOLEAN,
     chat_context_compression_target_ratio : {60}]

\* the state of a component that the specification at hand leaves alone
Idle == [pc |-> "idle"]

\* a call assemble_context(query, history, sources, max_sources, per_source_char_limit)
InitCtx ==
    /\ chk = Idle /\ ret = Idle /\ ing = Idle
    /\ qx = Idle /\ post = Idle /\ chat = Idle /\ kb = Idle /\ cjob = Idle
    /\ \E srcs \in CandLists(MaxCands), st \in CtxSettings, ms \in {0, 1, 2} :
         ctx = [pc |-> "start", query |-> <<"a", "b", "c">>, history |-> <<>>,
                sources |-> srcs, max_sources |-> ms, per_source_char_limit |-> 100,
                st |-> st, ranked |-> <<>>, arranged |-> <<>>, token_budget |-> 0,
                min_tokens_per_source |-> 0, max_tokens_per_source |-> 0,
                i |-> 1, chosen |-> <<>>, used_tokens |-> 0, compressed_sources |-> 0,
                fallback |-> FALSE, context_blocks |-> <<>>]

\* FilterSources without the blank-snippet test
FilterSources_keep_blank(sources, safe_char_limit) ==
    <<>> \o [k \in 1..Len(sources) |->
               [sources[k] EXCEPT !.snippet = strip(Prefix(strip(@), safe_char_limit))]]

\* lines 143-154: drop blank snippets, cut the others to the character limit
FilterSources(sources, safe_char_limit) ==
    Let(SelectSeq(sources, LAMBDA c : strip(c.snippet) # <<>>), LAMBDA kept :
        <<>> \o [k \in 1..Len(kept) |->
                   [kept[k] EXCEPT !.snippet = strip(Prefix(strip(@), safe_char_limit))]])

\* lines 159-167: the token budget of the call
TokenBudget(st, query, history, min_tps) ==
    Max(min_tps,
        (Max(ContextTokensFloor, st.chat_model_context_tokens)
           * Max(25, Min(95, st.chat_context_budget_ratio))) \div 100
        - Max(0, st.chat_context_reserved_tokens)
        - (approximate_token_count(query) + approximate_token_count(history)))

\* lines 140-167: clamp the arguments, filter, rank, arrange, compute the budget
AssembleStart ==
    /\ ctx.pc = "start"
    /\ \E ranked \in {StableSort(FilterSources(ctx.sources,
                                     Max(CharLimitFloor, ctx.per_source_char_limit)),
                                 LAMBDA x, y : x.score > y.score)},
          min_tps \in {Max(MinTokensFloor, ctx.st.chat_context_min_tokens_per_source)} :
         ctx' = [ctx EXCEPT !.pc = "walk", !.ranked = ranked,
                            !.arranged = _lost_middle_order(ranked),
                            !.min_tokens_per_source = min_tps,
                            !.max_tokens_per_source =
                                Max(min_tps, ctx.st.chat_context_max_tokens_per_source),
                            !.token_budget = TokenBudget(ctx.st, ctx.query, ctx.history, min_tps)]
    /\ UNCHANGED <<chk, ret, ing, qx, post, chat, kb, cjob>>

\* safe_max_sources with the limit off by one
safe_max_sources_off_by_one(max_sources) == Max(1, max_sources) + 1

\* line 140
safe_max_sources(max_sources) == Max(1, max_sources)

\* lines 173-178: the walk ends at the end of arranged or at a break
WalkEnd ==
    /\ ctx.pc = "walk"
    /\ \/ ctx.i > Len(ctx.arranged)
       \/ Len(ctx.chosen) >= safe_max_sources(ctx.max_sources)
       \/ (ctx.token_budget - ctx.used_tokens < ctx.min_tokens_per_source /\ ctx.chosen # <<>>)
    /\ ctx' = [ctx EXCEPT !.pc = "walked"]
    /\ UNCHANGED <<chk, ret, ing, qx, post, chat, kb, cjob>>

\* lines 191-198: a snippet over the remaining budget is truncated to it; the
\* result is [snippet, tokens, over]
FitSnippet(first, remaining) ==
    IF approximate_token_count(first) > remaining
    THEN Let(_truncate_to_token_budget(first, remaining), LAMBDA cut :
             [snippet |-> cut, tokens |-> approximate_token_count(cut), over |-> TRUE])
    ELSE [snippet |-> first, tokens |-> approximate_token_count(first), over |-> FALSE]

\* lines 173-206: one iteration of the walk over arranged
WalkStep ==
    /\ ctx.pc = "walk"
    /\ ctx.i <= Len(ctx.arranged)
    /\ Len(ctx.chosen) < safe_max_sources(ctx.max_sources)
    /\ ~(ctx.token_budget - ctx.used_tokens < ctx.min_tokens_per_source /\ ctx.chosen # <<>>)
    /\ \E remaining \in {ctx.token_budget - ctx.used_tokens} :
       \E cs \in {_compress_snippet(ctx.arranged[ctx.i].snippet, ctx.query,
                      Min(ctx.max_tokens_per_source, Max(ctx.min_tokens_per_source, remaining)),
                      ctx.min_tokens_per_source, ctx.st)} :
       \E fit \in {FitSnippet(strip(cs.snippet), remaining)} :
         IF \/ strip(cs.snippet) = <<>>
            \/ (fit.over /\ ctx.chosen # <<>>)
            \/ (fit.over /\ fit.tokens = 0)
         THEN ctx' = [ctx EXCEPT !.i = @ + 1]
         ELSE ctx' = [ctx EXCEPT !.i = @ + 1,
                         !.chosen = Append(@, [ctx.arranged[ctx.i] EXCEPT !.snippet = fit.snippet]),
                         !.used_tokens = @ + fit.tokens,
                         !.compressed_sources = @ + (IF cs.compressed THEN 1 ELSE 0)]
    /\ UNCHANGED <<chk, ret, ing, qx, post, chat, kb, cjob>>

\* lines 208-217: the single-candidate fallback, taken when the walk chose nothing
Fallback(c) ==
    Let(_truncate_to_token_budget(c.ranked[1].snippet,
                                  Min(c.max_tokens_per_source, c.token_budget)),
        LAMBDA snippet :
        [c EXCEPT !.fallback = TRUE,
                  !.chosen = <<[c.ranked[1] EXCEPT !.snippet = snippet]>>,
                  !.used_tokens = approximate_token_count(snippet),
                  !.compressed_sources = IF snippet # c.ranked[1].snippet THEN 1 ELSE 0])

\* lines 208-231: the fallback, the context blocks and the returned ContextAssembly
AssembleFinish ==
    /\ ctx.pc = "walked"
    /\ \E c \in {IF ctx.chosen = <<>> /\ ctx.ranked # <<>> THEN Fallback(ctx) ELSE ctx} :
         ctx' = [c EXCEPT !.pc = "done", !.context_blocks = ContextBlocks(c.chosen)]
    /\ UNCHANGED <<chk, ret, ing, qx, post, chat, kb, cjob>>

NextCtx == AssembleStart \/ WalkStep \/ WalkEnd \/ AssembleFinish

SpecCtx == InitCtx /\ [][NextCtx]_vars

(***************************************************************************)
(* ingestion/chunking.py                                                   *)
(* Chunk.start_char and Chunk.end_char are not modelled.                   *)
(***************************************************************************)
MaxHeadingLevel == 6
MaxNumberingGroups == 5

\* [w for w in WORD_SPLIT_RE.split(s) if w]
SplitWords(s) == Runs(s, LAMBDA i : s[i] \notin WsChars)

\* the loops of _split_long_segment (lines 36-46 and 53-66) over units[i..]:
\* a part is closed when the next unit would take it past max_chunk_chars
RECURSIVE GroupGreedy(_, _, _, _)
GroupGreedy(units, i, buf, max_chunk_chars) ==
    IF i > Len(units) THEN (IF strip(buf) = <<>> THEN <<>> ELSE <<strip(buf)>>)
    ELSE IF buf # <<>> /\ Len(strip(buf \o <<" ">> \o units[i])) > max_chunk_chars
         THEN <<strip(buf)>> \o GroupGreedy(units, i + 1, units[i], max_chunk_chars)
    ELSE GroupGreedy(units, i + 1, strip(buf \o <<" ">> \o units[i]), max_chunk_chars)

\* lines 68-74: a trailing part shorter than min_chunk_chars joins the part before it
MergeTinyTail(out, min_chunk_chars) ==
    IF Len(out) > 1 /\ Len(out[Len(out)]) < min_chunk_chars
    THEN Append(SubSeq(out, 1, Len(out) - 2),
                strip(out[Len(out) - 1] \o <<"\n">> \o out[Len(out)]))
    ELSE out

\* the texts of the parts _split_long_segment returns
_split_long_segment(text, max_chunk_chars, min_chunk_chars) ==
    Let(strip(text), LAMBDA clean :
        IF clean = <<>> THEN <<>>
        ELSE IF Len(clean) <= max_chunk_chars THEN <<clean>>
        ELSE Let(SplitSentences(clean, FALSE), LAMBDA pieces :
             IF Len(pieces) <= 1
             THEN GroupGreedy(SplitWords(clean), 1, <<>>, max_chunk_chars)
             ELSE MergeTinyTail(GroupGreedy(pieces, 1, <<>>, max_chunk_chars),
                                min_chunk_chars)))

_tail_overlap_chars(text, overlap_chars) ==
    IF overlap_chars <= 0 \/ text = <<>> THEN <<>>
    ELSE Let(Suffix(text, overlap_chars), LAMBDA tail :
         Let(Where(tail, LAMBDA i : tail[i] = " "), LAMBDA sp :
             IF sp # <<>> /\ sp[1] > 1 /\ sp[1] < Len(tail)
             THEN strip(SubSeq(tail, sp[1] + 1, Len(tail)))
             ELSE strip(tail)))

\* _tail_overlap_sentences without the cut to overlap_chars of lines 103-104
_tail_overlap_sentences_uncut(text, overlap_sentences, overlap_chars) ==
    IF text = <<>> \/ overlap_chars <= 0 THEN <<>>
    ELSE IF Max(0, overlap_sentences) <= 0 THEN _tail_overlap_chars(text, overlap_chars)
    ELSE Let(SplitSentences(text, FALSE), LAMBDA sentences :
         IF sentences = <<>> THEN _tail_overlap_chars(text, overlap_chars)
         ELSE strip(Join(SubSeq(sentences,
                                Max(1, Len(sentences) - overlap_sentences + 1),
                                Len(sentences)), <<" ">>)))

_tail_overlap_sentences(text, overlap_sentences, overlap_chars) ==
    IF text = <<>> \/ overlap_chars <= 0 THEN <<>>
    ELSE IF Max(0, overlap_sentences) <= 0 THEN _tail_overlap_chars(text, overlap_chars)
    ELSE Let(SplitSentences(text, FALSE), LAMBDA sentences :
         IF sentences = <<>> THEN _tail_overlap_chars(text, overlap_chars)
         ELSE Let(strip(Join(SubSeq(sentences,
                                    Max(1, Len(sentences) - overlap_sentences + 1),
                                    Len(sentences)), <<" ">>)),
                  LAMBDA overlap :
                  IF Len(overlap) > overlap_chars
                  THEN strip(_tail_overlap_chars(overlap, overlap_chars))
                  ELSE overlap))

\* text.splitlines(keepends=True), "\n" being the only line break of the model
splitlines(s) ==
    Let(Where(s, LAMBDA i : s[i] = "\n"), LAMBDA nl :
        <<>> \o [k \in 1..(Len(nl) + (IF nl = <<>> \/ nl[Len(nl)] < Len(s)
                                      THEN (IF s = <<>> THEN 0 ELSE 1) ELSE 0)) |->
                  SubSeq(s, IF k = 1 THEN 1 ELSE nl[k - 1] + 1,
                            IF k <= Len(nl) THEN nl[k] ELSE Len(s))])

\* the length of the run of characters of cs at the start of s[from..]
RunLen(s, from, cs) ==
    Let(Where(s, LAMBDA i : i >= from /\ s[i] \notin cs), LAMBDA stop :
        IF stop = <<>> THEN Len(s) - from + 1 ELSE stop[1] - from)

NoHeading == [level |-> 0, title |-> <<>>]

\* MD_HEADING_RE on a stripped line: 1 to 6 "#", whitespace, a title
MdHeading(line) ==
    Let(RunLen(line, 1, {"#"}), LAMBDA hashes :
    Let(RunLen(line, hashes + 1, WsChars), LAMBDA gap :
        IF hashes >= 1 /\ hashes <= MaxHeadingLevel /\ gap >= 1 /\ hashes + gap < Len(line)
        THEN [level |-> hashes, title |-> strip(SubSeq(line, hashes + gap + 1, Len(line)))]
        ELSE NoHeading))

DigitChars == {"0", "1", "2", "3", "4", "5", "6", "7", "8", "9"}

\* the end of the numbering \d+(?:\.\d+){0,5} that starts at s[1], with the
\* number of its ".digits" groups; end = 0 when s does not start with a digit
RECURSIVE NumberingEnd(_, _, _)
NumberingEnd(s, end, groups) ==
    IF /\ end >= 1 /\ groups < MaxNumberingGroups
       /\ end + 2 <= Len(s) /\ s[end + 1] = "." /\ s[end + 2] \in DigitChars
    THEN NumberingEnd(s, end + 1 + RunLen(s, end + 2, DigitChars), groups + 1)
    ELSE [end |-> end, groups |-> groups]

\* NUMBERED_HEADING_RE on a stripped line: a numbering, an optional ")" or ".",
\* whitespace, a title; the level is the number of dots of the numbering plus 1
NumberedHeading(line) ==
    Let(NumberingEnd(line, RunLen(line, 1, DigitChars), 0), LAMBDA num :
    Let(num.end + (IF num.end < Len(line) /\ line[num.end + 1] \in {")", "."} THEN 1 ELSE 0),
        LAMBDA mark :
    Let(RunLen(line, mark + 1, WsChars), LAMBDA gap :
        IF num.end >= 1 /\ gap >= 1 /\ mark + gap < Len(line)
        THEN [level |-> num.groups + 1, title |-> strip(SubSeq(line, mark + gap + 1, Len(line)))]
        ELSE NoHeading)))

\* [level, title] of a heading line, level 0 when the line is no heading
_heading_level_and_title(line) ==
    Let(MdHeading(line), LAMBDA md :
        IF md.level > 0 /\ md.title # <<>> THEN md
        ELSE Let(NumberedHeading(line), LAMBDA nh :
                 IF nh.level > 0 /\ nh.title # <<>> THEN nh ELSE NoHeading))

\* section_path(): the titles of heading_stack joined by " > " in level order;
\* heading_stack maps each level 1..6 to its title, <<>> when the level is unset
section_path(heading_stack) ==
    Join(SelectSeq(heading_stack, LAMBDA t : t # <<>>), <<" ", ">", " ">>)

\* flush_buffer(): out with the paragraph of buffer appended, when it is not blank
flush_buffer(out, buffer, heading_stack) ==
    IF strip(buffer) = <<>> THEN out
    ELSE Append(out, [text |-> strip(buffer), section |-> section_path(heading_stack)])

\* heading_stack[level] = title with the deeper levels left in place
PushHeading_keeps_deeper(heading_stack, heading) ==
    [l \in 1..MaxHeadingLevel |->
        IF l = heading.level THEN heading.title ELSE heading_stack[l]]

\* lines 160-164: heading_stack[level] = title, deeper levels deleted
PushHeading(heading_stack, heading) ==
    [l \in 1..MaxHeadingLevel |->
        IF l = heading.level THEN heading.title
        ELSE IF l > heading.level THEN <<>> ELSE heading_stack[l]]

\* lines 194-202: every paragraph split into segments that keep its section path
RECURSIVE SplitParagraphs(_, _, _, _)
SplitParagraphs(paragraphs, i, max_chunk_chars, min_chunk_chars) ==
    IF i > Len(paragraphs) THEN <<>>
    ELSE Let(_split_long_segment(paragraphs[i].text, max_chunk_chars, min_chunk_chars),
             LAMBDA parts :
             [k \in 1..Len(parts) |-> [text |-> parts[k], section |-> paragraphs[i].section]])
         \o SplitParagraphs(paragraphs, i + 1, max_chunk_chars, min_chunk_chars)

\* lines 215-220: the distinct non-blank paths, in order of first occurrence
unique_paths(section_paths) ==
    Let([k \in 1..Len(section_paths) |-> strip(section_paths[k])], LAMBDA n :
        [j \in 1..Len(Where(n, LAMBDA k : n[k] # <<>> /\ \A m \in 1..(k - 1) : n[m] # n[k])) |->
            n[Where(n, LAMBDA k : n[k] # <<>> /\ \A m \in 1..(k - 1) : n[m] # n[k])[j]]])

\* emit_chunk() on the loop state c: no effect when current_text is blank
emit_chunk(c) ==
    Let(strip(c.current_text), LAMBDA body :
        IF body = <<>> THEN c
        ELSE Let(unique_paths(c.section_paths), LAMBDA up :
             Let(_tail_overlap_sentences(body, c.overlap_sentences, c.overlap_chars),
                 LAMBDA overlap :
                 [c EXCEPT !.chunks = Append(@, [text |-> body,
                                                 paragraph_count |-> c.paragraph_count,
                                                 section_paths |-> up]),
                           !.current_text = overlap,
                           !.paragraph_count = 0,
                           !.section_paths = IF overlap # <<>> /\ up # <<>>
                                             THEN <<up[Len(up)]>> ELSE <<>>])))

\* variant of AppendSegment that never emits the chunk being built
AppendSegment_never_emits(c, seg) ==
    [c EXCEPT !.current_text = IF c.current_text # <<>>
                               THEN strip(c.current_text \o <<"\n", "\n">> \o seg.text)
                               ELSE seg.text,
              !.paragraph_count = @ + 1,
              !.section_paths = IF seg.section # <<>> /\ (@ = <<>> \/ @[Len(@)] # seg.section)
                                THEN Append(@, seg.section) ELSE @]

\* lines 261-273: the segment seg joins the chunk being built, which is
\* emitted first when it is long enough and seg would take it past the maximum
AppendSegment(c, seg) ==
    Let(IF /\ Len(strip(c.current_text \o <<"\n", "\n">> \o seg.text)) > c.max_chunk_chars
           /\ Len(c.current_text) >= c.min_chunk_chars
        THEN emit_chunk(c) ELSE c,
        LAMBDA e :
        [e EXCEPT !.current_text = IF e.current_text # <<>>
                                   THEN strip(e.current_text \o <<"\n", "\n">> \o seg.text)
                                   ELSE seg.text,
                  !.paragraph_count = @ + 1,
                  !.section_paths = IF seg.section # <<>> /\ (@ = <<>> \/ @[Len(@)] # seg.section)
                                    THEN Append(@, seg.section) ELSE @])

\* re.sub(r"\s+", " ", text).strip().lower()
NormalizedText(text) == LowerStr(Join(SplitWords(text), <<" ">>))

\* a duplicate guard that drops nothing
Dedupe_keeps_all(chunks) == chunks

\* lines 277-286: chunks whose normalized text is blank or was seen before are dropped
Dedupe(chunks) ==
    Let([k \in 1..Len(chunks) |-> NormalizedText(chunks[k].text)], LAMBDA n :
    Let(Where(chunks, LAMBDA k : n[k] # <<>> /\ \A m \in 1..(k - 1) : n[m] # n[k]),
        LAMBDA keep : [j \in 1..Len(keep) |-> chunks[keep[j]]]))

\* lines 288-291: chunk_index and chunk_count
Indexed(chunks) ==
    [i \in 1..Len(chunks) |->
        [text |-> chunks[i].text, paragraph_count |-> chunks[i].paragraph_count,
         section_paths |-> chunks[i].section_paths,
         chunk_index |-> i - 1, chunk_count |-> Len(chunks)]]

(* ------------------------- model bounds ------------------------------- *)
MaxParas == 3
LongWordChars == 13

\* paragraphs and heading lines the documents are made of
ChunkParas ==
    { <<"a", "a", " ", "b", "b", ".", " ", "c", "c", " ", "a", "b", ".">>,
      <<"a", "b", " ", "a", "b", " ", "a", "b", " ", "a", "b">>,
      Rep(<<"a">>, LongWordChars),
      <<"#", " ", "a">>,
      <<"a", "a", " ", "b", "b", ".">>,
      <<"A", "a", " ", " ", "b", "b", ".">> }

\* documents of at most n paragraphs separated by blank lines
ChunkTexts(n) ==
    UNION {{Join(ps, <<"\n", "\n">>) : ps \in [1..k -> ChunkParas]} : k \in 0..n}

\* lines 127-134 and 204-208: the state chunk_text starts from
ChunkStart(text, max_chunk_chars, overlap_chars, overlap_sentences, min_chunk_chars) ==
    [pc |-> "scan", text |-> text,
     max_chunk_chars |-> max_chunk_chars, overlap_chars |-> overlap_chars,
     overlap_sentences |-> overlap_sentences, min_chunk_chars |-> min_chunk_chars,
     lines |-> splitlines(text), li |-> 1,
     heading_stack |-> [l \in 1..MaxHeadingLevel |-> <<>>],
     buffer |-> <<>>, paragraphs |-> <<>>,
     segments |-> <<>>, si |-> 1,
     current_text |-> <<>>, paragraph_count |-> 0, section_paths |-> <<>>,
     chunks |-> <<>>]

\* lines 155-169: one line of the document: a heading, a blank line or text
scan_line(c) ==
    Let(strip(c.lines[c.li]), LAMBDA stripped :
    Let(_heading_level_and_title(stripped), LAMBDA heading :
        IF heading.level > 0
        THEN [c EXCEPT !.li = @ + 1, !.buffer = <<>>,
                       !.paragraphs = flush_buffer(@, c.buffer, c.heading_stack),
                       !.heading_stack = PushHeading(@, heading)]
        ELSE IF stripped = <<>>
        THEN [c EXCEPT !.li = @ + 1, !.buffer = <<>>,
                       !.paragraphs = flush_buffer(@, c.buffer \o c.lines[c.li],
                                                   c.heading_stack)]
        ELSE [c EXCEPT !.li = @ + 1, !.buffer = @ \o c.lines[c.li]]))

\* lines 171 and 189-202: the last paragraph is flushed; no paragraph, no
\* chunk; else the paragraphs are split into segments
scan_end(c) ==
    Let(flush_buffer(c.paragraphs, c.buffer, c.heading_stack), LAMBDA paragraphs :
        [c EXCEPT !.buffer = <<>>, !.paragraphs = paragraphs,
                  !.pc = IF paragraphs = <<>> THEN "done" ELSE "loop",
                  !.segments = SplitParagraphs(paragraphs, 1, c.max_chunk_chars,
                                               c.min_chunk_chars)])

\* lines 251-273: one segment of the main loop
loop_step(c) ==
    Let(c.segments[c.si], LAMBDA seg :
        IF c.current_text = <<>>
        THEN [c EXCEPT !.si = @ + 1, !.current_text = seg.text,
                       !.paragraph_count = 1,
                       !.section_paths = IF seg.section # <<>> THEN <<seg.section>> ELSE @]
        ELSE [AppendSegment(c, seg) EXCEPT !.si = @ + 1])

\* a finish that numbers the chunks before the duplicates are dropped
finish_numbers_first(c) ==
    Let(emit_chunk(c), LAMBDA e :
        [e EXCEPT !.pc = "done", !.chunks = Dedupe(Indexed(e.chunks))])

\* lines 275-292: the last chunk is emitted, duplicates are dropped, the
\* chunks get their index and count
finish(c) ==
    Let(emit_chunk(c), LAMBDA e :
        [e EXCEPT !.pc = "done", !.chunks = Indexed(Dedupe(e.chunks))])

\* one step of chunk_text from the state c
chunk_step(c) ==
    IF c.pc = "scan"
    THEN IF c.li <= Len(c.lines) THEN scan_line(c) ELSE scan_end(c)
    ELSE IF c.si <= Len(c.segments) THEN loop_step(c) ELSE finish(c)

RECURSIVE chunk_run(_)
chunk_run(c) == IF c.pc = "done" THEN c.chunks ELSE chunk_run(chunk_step(c))

\* chunk_text as a function of its arguments
chunk_text(text, max_chunk_chars, overlap_chars, overlap_sentences, min_chunk_chars) ==
    chunk_run(ChunkStart(text, max_chunk_chars, overlap_chars, overlap_sentences,
                         min_chunk_chars))

\* a call chunk_text(text, max_chunk_chars, overlap_chars, overlap_sentences, min_chunk_chars)
InitChunk ==
    /\ ctx = Idle /\ ret = Idle /\ ing = Idle
    /\ qx = Idle /\ post = Idle /\ chat = Idle /\ kb = Idle /\ cjob = Idle
    /\ \E text \in ChunkTexts(MaxParas), oc \in {0, 5}, os \in {0, 1, 2}, mn \in {0, 4} :
         chk = ChunkStart(text, 8, oc, os, mn)

ScanLine ==
    /\ chk.pc = "scan"
    /\ chk.li <= Len(chk.lines)
    /\ chk' = scan_line(chk)
    /\ UNCHANGED <<ctx, ret, ing, qx, post, chat, kb, cjob>>

ScanEnd ==
    /\ chk.pc = "scan"
    /\ chk.li > Len(chk.lines)
    /\ chk' = scan_end(chk)
    /\ UNCHANGED <<ctx, ret, ing, qx, post, chat, kb, cjob>>

LoopStep ==
    /\ chk.pc = "loop"
    /\ chk.si <= Len(chk.segments)
    /\ chk' = loop_step(chk)
    /\ UNCHANGED <<ctx, ret, ing, qx, post, chat, kb, cjob>>

ChunkFinish ==
    /\ chk.pc = "loop"
    /\ chk.si > Len(chk.segments)
    /\ chk' = finish(chk)
    /\ UNCHANGED <<ctx, ret, ing, qx, post, chat, kb, cjob>>

NextChunk == ScanLine \/ ScanEnd \/ LoopStep \/ ChunkFinish

SpecChunk == InitChunk /\ [][NextChunk]_vars

(* ------------------------- documents with headings -------------------- *)
MaxLines == 4

\* heading lines of levels 1, 2, 3 and 2, a text line and a blank line
SectionLines ==
    { <<"#", " ", "a">>, <<"#", "#", " ", "b">>, <<"#", "#", "#", " ", "c">>, <<"1", ".", "1", " ", "d">>, <<"a", "a", " ", "b", "b", ".">>, <<>> }

\* documents of at most n lines
SectionTexts(n) ==
    UNION {{Join(ls, <<"\n">>) : ls \in [1..k -> SectionLines]} : k \in 0..n}

\* a call chunk_text(text, 20, 0, 1, 0) on a document with headings
InitSections ==
    /\ ctx = Idle /\ ret = Idle /\ ing = Idle
    /\ qx = Idle /\ post = Idle /\ chat = Idle /\ kb = Idle /\ cjob = Idle
    /\ \E text \in SectionTexts(MaxLines) : chk = ChunkStart(text, 20, 0, 1, 0)

SpecSections == InitSections /\ [][NextChunk]_vars

(* ======================= services/retrieval.py ============================ *)
(* One call of hybrid_retrieve against a snapshot of one collection.  A      *)
(* point is [point_id, text]; point ids are the positions in the snapshot.   *)
(* RRF sums are exact fractions over the denominator RrfDen, BM25 scores are *)
(* fixed-point numbers in units of 1/100000; floating-point rounding is not  *)
(* modelled.  The metadata and doc_id of a point are carried through         *)
(* unchanged by the code and are left out.                                   *)

RRF_K == 60

MaxPoints == 3

\* the product of RRF_K + rank over the ranks 1..n
RECURSIVE RrfProduct(_)
RrfProduct(n) == IF n = 0 THEN 1 ELSE (RRF_K + n) * RrfProduct(n - 1)

RrfDen == RrfProduct(MaxPoints)

\* a weight that grows with the rank
RrfWeight_growing(rank) == RrfDen \div (RRF_K + MaxPoints + 1 - rank)

\* 1.0 / (RRF_K + rank), as a numerator over RrfDen
RrfWeight(rank) == RrfDen \div (RRF_K + rank)

RECURSIVE SumSeq(_)
SumSeq(s) == IF s = <<>> THEN 0 ELSE Head(s) + SumSeq(Tail(s))

\* the position of x in s, 0 when it is not there
IndexOf(s, x) ==
    IF \E k \in 1..Len(s) : s[k] = x THEN CHOOSE k \in 1..Len(s) : s[k] = x ELSE 0

\* lines 33-34
_tokenize(text) == Let(Words(text), LAMBDA w : [k \in 1..Len(w) |-> LowerStr(w[k])])

\* round(1000 * math.log(1 + (n_docs - term_df + 0.5) / (term_df + 0.5))) for
\* n_docs = 1..5 and term_df = 1..n_docs (line 70)
IdfMilli ==
    << <<288>>,
       <<693, 182>>,
       <<981, 470, 134>>,
       <<1204, 693, 357, 105>>,
       <<1386, 875, 539, 288, 87>> >>

\* lines 71-73 for one query term, with k1 = 1.2 and b = 0.75:
\* idf * freq * 2.2 / (freq + 0.3 + 0.9 * doc_len * n_docs / total)
TermScore(n_docs, term_df, freq, doc_len, total) ==
    (IdfMilli[n_docs][term_df] * 22 * freq * total * 100)
        \div (10 * freq * total + 3 * total + 9 * doc_len * n_docs)

\* lines 37-75
_bm25_scores(query, docs) ==
    Let([d \in 1..Len(docs) |-> _tokenize(docs[d])], LAMBDA tokenized_docs :
    Let(_tokenize(query), LAMBDA q_terms :
        IF q_terms = <<>> THEN [d \in 1..Len(docs) |-> 0]
        ELSE
        Let(SumSeq([d \in 1..Len(docs) |-> Len(tokenized_docs[d])]), LAMBDA total :
            [d \in 1..Len(docs) |->
                SumSeq([t \in 1..Len(q_terms) |->
                    Let(Cardinality({i \in 1..Len(tokenized_docs[d]) :
                                        tokenized_docs[d][i] = q_terms[t]}), LAMBDA freq :
                        IF freq = 0 THEN 0
                        ELSE TermScore(Len(docs),
                                       Cardinality({e \in 1..Len(docs) :
                                           \E i \in 1..Len(tokenized_docs[e]) :
                                               tokenized_docs[e][i] = q_terms[t]}),
                                       freq, Max(1, Len(tokenized_docs[d])), total))])])))

\* lines 93-107
_normalize_query_variants(query, query_variants) ==
    Let(<<query>> \o query_variants, LAMBDA variants :
    Let([k \in 1..Len(variants) |-> strip(variants[k])], LAMBDA normalized :
    Let(Where(normalized, LAMBDA k :
            /\ normalized[k] # <<>>
            /\ \A j \in 1..(k - 1) : LowerStr(normalized[j]) # LowerStr(normalized[k])),
        LAMBDA keep :
        IF keep = <<>> THEN <<IF strip(query) # <<>> THEN strip(query) ELSE query>>
        ELSE [k \in 1..Len(keep) |-> normalized[keep[k]]])))

\* an optional argument: None, or a value
None == [some |-> FALSE, v |-> 0]
Some(v) == [some |-> TRUE, v |-> v]

\* arg or default
OrDefault(arg, default) == IF arg.some /\ arg.v # 0 THEN arg.v ELSE default

\* s[:k], k of either sign
PySlice(s, k) == IF k >= 0 THEN Prefix(s, k) ELSE Prefix(s, Max(0, Len(s) + k))

\* qdrant_client.py lines 87-100: the limit points of the snapshot that are
\* most similar to the query, most similar first, equally similar ones in
\* snapshot order
search_collection(store, similarity, limit) ==
    Prefix(StableSort([k \in 1..Len(store) |->
                          [point_id |-> store[k].point_id, text |-> store[k].text,
                           score |-> similarity[k]]],
                      LAMBDA x, y : x.score > y.score),
           limit)

\* lines 133-149
_dense_search(store, similarity, limit) ==
    Let(search_collection(store, similarity, limit), LAMBDA hits :
        [k \in 1..Len(hits) |->
            [point_id |-> hits[k].point_id, text |-> hits[k].text,
             dense_score |-> hits[k].score, sparse_score |-> 0]])

\* lines 152-184: the first max_points points of the snapshot that have a text
_scroll_candidates(store, max_points) ==
    Let(Prefix(SelectSeq(store, LAMBDA p : p.text # <<>>), max_points), LAMBDA got :
        [k \in 1..Len(got) |->
            [point_id |-> got[k].point_id, text |-> got[k].text,
             dense_score |-> 0, sparse_score |-> 0]])

\* the scaled-down retrieval settings of config.py
RetSettings ==
    [retrieval_top_k |-> 2, retrieval_dense_limit |-> 3,
     retrieval_sparse_pool |-> 3, retrieval_rerank_top_n |-> 3]

\* lines 198-202
retrieve_start(r) ==
    [r EXCEPT !.pc = "dense", !.vi = 1,
              !.top_k_used = OrDefault(r.top_k, RetSettings.retrieval_top_k),
              !.dense_limit_used = OrDefault(r.dense_limit, RetSettings.retrieval_dense_limit),
              !.sparse_pool_used = IF r.sparse_pool.some THEN r.sparse_pool.v
                                   ELSE RetSettings.retrieval_sparse_pool,
              !.rerank_top_n_used = RetSettings.retrieval_rerank_top_n,
              !.variants = _normalize_query_variants(r.query, r.query_variants)]

\* lines 212-214 over one ranked list: a new point is added at the end, a
\* known one is replaced when the new dense score is higher
UpdateDenseBest(dense_best, ranked) ==
    [k \in 1..Len(dense_best) |->
        IF \E j \in 1..Len(ranked) : /\ ranked[j].point_id = dense_best[k].point_id
                                     /\ ranked[j].dense_score > dense_best[k].dense_score
        THEN ranked[CHOOSE j \in 1..Len(ranked) : ranked[j].point_id = dense_best[k].point_id]
        ELSE dense_best[k]]
    \o SelectSeq(ranked, LAMBDA c : \A k \in 1..Len(dense_best) :
                                        dense_best[k].point_id # c.point_id)

\* lines 207-214 for the variant at position vi
dense_variant(r) ==
    Let(StableSort(_dense_search(r.store, r.similarity[strip(r.variants[r.vi])],
                                 r.dense_limit_used),
                   LAMBDA x, y : x.dense_score > y.dense_score), LAMBDA ranked_dense :
    Let([k \in 1..Len(ranked_dense) |-> ranked_dense[k].point_id], LAMBDA ids :
        [r EXCEPT !.vi = @ + 1,
                  !.dense_rrf_rank = [p \in DOMAIN @ |->
                        @[p] + (IF IndexOf(ids, p) > 0 THEN RrfWeight(IndexOf(ids, p)) ELSE 0)],
                  !.dense_best = UpdateDenseBest(@, ranked_dense),
                  !.dense_lists = Append(@, ids)]))

\* a failure of the dense pass that is skipped: the loop goes on with the next variant
dense_failure_swallowed(r) == [r EXCEPT !.dense_raised = TRUE, !.vi = @ + 1]

\* the embedding call or the vector search raises: nothing catches it
dense_failure(r) == [r EXCEPT !.dense_raised = TRUE, !.pc = "raised"]

\* lines 216-226
scroll(r) ==
    [r EXCEPT !.pc = "sparse", !.vi = 1,
              !.sparse_corpus = IF r.sparse_pool_used > 0
                                THEN _scroll_candidates(r.store, r.sparse_pool_used)
                                ELSE <<>>]

\* the scroll raises: nothing catches it
scroll_failure(r) == [r EXCEPT !.scroll_raised = TRUE, !.pc = "raised"]

\* lines 227-238 for the variant at position vi
sparse_variant(r) ==
    Let(_bm25_scores(r.variants[r.vi],
                     [k \in 1..Len(r.sparse_corpus) |-> r.sparse_corpus[k].text]),
        LAMBDA variant_scores :
    Let(StableSort(SelectSeq([k \in 1..Len(r.sparse_corpus) |->
                                 [point_id |-> r.sparse_corpus[k].point_id,
                                  score |-> variant_scores[k]]],
                             LAMBDA item : item.score > 0),
                   LAMBDA x, y : x.score > y.score), LAMBDA ranked_sparse :
    Let([k \in 1..Len(ranked_sparse) |-> ranked_sparse[k].point_id], LAMBDA ids :
        [r EXCEPT !.vi = @ + 1,
                  !.sparse_best_scores = [p \in DOMAIN @ |->
                        IF IndexOf(ids, p) > 0
                        THEN Max(@[p], ranked_sparse[IndexOf(ids, p)].score) ELSE @[p]],
                  !.sparse_rrf_rank = [p \in DOMAIN @ |->
                        @[p] + (IF IndexOf(ids, p) > 0 THEN RrfWeight(IndexOf(ids, p)) ELSE 0)],
                  !.sparse_order = @ \o SelectSeq(ids, LAMBDA p : IndexOf(r.sparse_order, p) = 0),
                  !.sparse_lists = Append(@, ids)])))

\* lines 241-253: the union of the dense and the sparse candidates, dense ones
\* first, with their fused score, best first
Merged(r) ==
    Let(r.dense_best
        \o [k \in 1..Len(SelectSeq(r.sparse_order, LAMBDA p :
                            \A j \in 1..Len(r.dense_best) : r.dense_best[j].point_id # p)) |->
               r.sparse_corpus[CHOOSE c \in 1..Len(r.sparse_corpus) :
                   r.sparse_corpus[c].point_id =
                       SelectSeq(r.sparse_order, LAMBDA p :
                           \A j \in 1..Len(r.dense_best) : r.dense_best[j].point_id # p)[k]]],
        LAMBDA by_id :
        StableSort([k \in 1..Len(by_id) |->
                       [point_id |-> by_id[k].point_id, text |-> by_id[k].text,
                        dense_score |-> by_id[k].dense_score,
                        sparse_score |-> IF IndexOf(r.sparse_order, by_id[k].point_id) > 0
                                         THEN Max(by_id[k].sparse_score,
                                                  r.sparse_best_scores[by_id[k].point_id])
                                         ELSE by_id[k].sparse_score,
                        final_score |-> r.dense_rrf_rank[by_id[k].point_id]
                                        + r.sparse_rrf_rank[by_id[k].point_id]]],
                   LAMBDA x, y : x.final_score > y.final_score))

\* lines 256-261: with cross-encoder scores the candidates are scored again
\* and sorted again; ce gives the score of a point, ce.some says whether the
\* cross-encoder is enabled and answered
Rerank(pre_rerank, ce) ==
    IF ~ce.some \/ pre_rerank = <<>> THEN pre_rerank
    ELSE StableSort([k \in 1..Len(pre_rerank) |->
                        [pre_rerank[k] EXCEPT !.final_score =
                            2 * ce.score[pre_rerank[k].point_id] * RrfDen + @]],
                    LAMBDA x, y : x.final_score > y.final_score)

\* lines 263-274
Output(out) ==
    [k \in 1..Len(out) |->
        [snippet |-> out[k].text, score |-> out[k].final_score,
         dense_score |-> out[k].dense_score, sparse_score |-> out[k].sparse_score]]

\* lines 241-274
retrieve_finish(r, ce) ==
    Let(Merged(r), LAMBDA merged :
        [r EXCEPT !.pc = "returned", !.merged = merged, !.ce = ce.some,
                  !.out = Output(PySlice(Rerank(PySlice(merged, Max(r.top_k_used,
                                                                    r.rerank_top_n_used)),
                                                ce),
                                         r.top_k_used))])

\* what the cross-encoder may answer: nothing (disabled, not installed or
\* failing), or a score per point
CeChoices(n) ==
    {[some |-> FALSE, score |-> [p \in 1..n |-> 0]],
     [some |-> TRUE, score |-> [p \in 1..n |-> p % 2]]}

\* the call runs to its end without a failure
RECURSIVE retrieve_run(_, _)
retrieve_run(r, ce) ==
    IF r.pc = "returned" THEN r.out
    ELSE IF r.pc = "start" THEN retrieve_run(retrieve_start(r), ce)
    ELSE IF r.pc = "dense"
    THEN retrieve_run(IF r.vi <= Len(r.variants) THEN dense_variant(r) ELSE scroll(r), ce)
    ELSE retrieve_run(IF r.vi <= Len(r.variants) THEN sparse_variant(r)
                      ELSE retrieve_finish(r, ce), ce)

\* the texts of the points of the snapshot, by position
PointTexts == << <<>>, <<"a", " ", "b">>, <<"a", " ", "c", " ", "b">>, <<"b">> >>

RetStore(n) ==
    [k \in 1..n |-> [point_id |-> k, text |-> PointTexts[((k - 1) % Len(PointTexts)) + 1]]]

\* the query and the query variants of a call
RetCalls ==
    { [query |-> <<"a">>, query_variants |-> <<>>],
      [query |-> <<"a">>, query_variants |-> << <<"b">> >>],
      [query |-> <<"a">>, query_variants |-> << <<"b">>, <<"c">> >>],
      [query |-> <<"a">>, query_variants |-> << <<"A", " ">>, <<>> >>],
      [query |-> <<" ">>, query_variants |-> <<>>] }

\* the arguments top_k, dense_limit and sparse_pool of a call
RetArgs ==
    { [top_k |-> None, dense_limit |-> None, sparse_pool |-> None],
      [top_k |-> Some(0), dense_limit |-> None, sparse_pool |-> None],
      [top_k |-> Some(2), dense_limit |-> Some(1), sparse_pool |-> Some(0)],
      [top_k |-> Some(1), dense_limit |-> None, sparse_pool |-> None],
      [top_k |-> Some(2), dense_limit |-> None, sparse_pool |-> Some(2)] }

DenseScores == {1, 2}

\* the state a call starts from
RetStart(call, args, store, similarity) ==
    [pc |-> "start", query |-> call.query, query_variants |-> call.query_variants,
     top_k |-> args.top_k, dense_limit |-> args.dense_limit, sparse_pool |-> args.sparse_pool,
     store |-> store, similarity |-> similarity,
     top_k_used |-> 0, dense_limit_used |-> 0, sparse_pool_used |-> 0, rerank_top_n_used |-> 0,
     variants |-> <<>>, vi |-> 1,
     dense_rrf_rank |-> [p \in 1..Len(store) |-> 0], dense_best |-> <<>>,
     dense_lists |-> <<>>, dense_raised |-> FALSE,
     sparse_corpus |-> <<>>, scroll_raised |-> FALSE,
     sparse_rrf_rank |-> [p \in 1..Len(store) |-> 0], sparse_order |-> <<>>,
     sparse_best_scores |-> [p \in 1..Len(store) |-> 0], sparse_lists |-> <<>>,
     merged |-> <<>>, ce |-> FALSE, out |-> <<>>]

\* the queries the embedding model is asked about in a call
DenseQueries(call) ==
    Let(_normalize_query_variants(call.query, call.query_variants), LAMBDA v :
        {strip(v[k]) : k \in 1..Len(v)})

InitRet ==
    /\ ctx = Idle /\ chk = Idle /\ ing = Idle
    /\ qx = Idle /\ post = Idle /\ chat = Idle /\ kb = Idle /\ cjob = Idle
    /\ \E call \in RetCalls, args \in RetArgs, n \in 0..MaxPoints :
       \E similarity \in [DenseQueries(call) -> [1..n -> DenseScores]] :
         ret = RetStart(call, args, RetStore(n), similarity)

\* lines 198-203
RetrieveStart ==
    /\ ret.pc = "start"
    /\ ret' = retrieve_start(ret)
    /\ UNCHANGED <<ctx, chk, ing, qx, post, chat, kb, cjob>>

\* lines 207-214: the dense pass of one variant, which may raise
DenseVariant ==
    /\ ret.pc = "dense"
    /\ ret.vi <= Len(ret.variants)
    /\ \E raises \in BOOLEAN :
         ret' = IF raises THEN dense_failure(ret) ELSE dense_variant(ret)
    /\ UNCHANGED <<ctx, chk, ing, qx, post, chat, kb, cjob>>

\* lines 216-226: the snapshot read of the sparse pass, which may raise
Scroll ==
    /\ ret.pc = "dense"
    /\ ret.vi > Len(ret.variants)
    /\ \E raises \in BOOLEAN :
         ret' = IF raises /\ ret.sparse_pool_used > 0 THEN scroll_failure(ret) ELSE scroll(ret)
    /\ UNCHANGED <<ctx, chk, ing, qx, post, chat, kb, cjob>>

\* lines 227-238: the sparse pass of one variant
SparseVariant ==
    /\ ret.pc = "sparse"
    /\ ret.vi <= Len(ret.variants)
    /\ ret' = sparse_variant(ret)
    /\ UNCHANGED <<ctx, chk, ing, qx, post, chat, kb, cjob>>

\* lines 241-274
RetrieveFinish ==
    /\ ret.pc = "sparse"
    /\ ret.vi > Len(ret.variants)
    /\ \E ce \in CeChoices(Len(ret.store)) : ret' = retrieve_finish(ret, ce)
    /\ UNCHANGED <<ctx, chk, ing, qx, post, chat, kb, cjob>>

NextRet == RetrieveStart \/ DenseVariant \/ Scroll \/ SparseVariant \/ RetrieveFinish

SpecRet == InitRet /\ [][NextRet]_vars

(* ===================== tasks/ingestion.py: ingest_document ==================== *)
(* One document of one knowledge base, the jobs queued for it and one worker   *)
(* that runs them. Every run carries an ingestion_job_id. The vector of a      *)
(* point is a function of its text and is represented by the text. The         *)
(* Document model is not part of the sources; its status names are taken from  *)
(* their uses in tasks/ingestion.py and api/routes.py.                         *)

\* U+FFFD, what decode(errors="replace") puts for an invalid byte
ReplacementChar == "U+FFFD"

AsciiChar ==
    (10 :> "\n") @@ (32 :> " ") @@ (46 :> ".") @@ (97 :> "a") @@ (98 :> "b") @@ (99 :> "c")

\* parsers.py lines 21-23: content.decode("utf-8", errors="replace") on
\* one-byte characters and invalid bytes
_parse_txt(content) ==
    [i \in 1..Len(content) |->
        IF content[i] \in DOMAIN AsciiChar THEN AsciiChar[content[i]] ELSE ReplacementChar]

\* parsers.py lines 60-68 for a .txt or .md file or an unknown extension
parse_document(content) == _parse_txt(content)

\* the chunking settings of config.py, scaled down to the short documents
IngSettings ==
    [chunk_max_chars |-> 8, chunk_overlap_chars |-> 5,
     chunk_overlap_sentences |-> 1, chunk_min_chars |-> 4]

MaxJobs == 3

\* file contents: blank, one sentence, two sentences, an invalid byte
IngContents ==
    { <<32, 10>>,
      <<97, 97, 32, 98, 98, 46>>,
      <<97, 97, 32, 98, 98, 46, 32, 99, 99, 32, 97, 98, 46>>,
      <<97, 255>> }

\* the document this model follows, and another one of the same collection
ThisDoc == "doc1"
OtherDoc == "doc2"

\* _update_doc_status (lines 31-43)
_update_doc_status(s, status, error_message) ==
    [s EXCEPT !.doc.status = status,
              !.doc.error = IF error_message THEN TRUE
                            ELSE IF status # "FAILED" THEN FALSE ELSE @]

\* ingestion_tracking.py lines 79-105: mark_ingestion_job_running and
\* update_ingestion_job_progress
_job_progress(s, progress) ==
    [s EXCEPT !.jobs[s.job] = [status |-> "running", progress |-> progress]]

\* ingestion_tracking.py lines 108-118
_job_completed(s) ==
    [s EXCEPT !.jobs[s.job] = [status |-> "completed", progress |-> 100]]

\* mark_ingestion_job_failed with record_dead_letter = False
mark_ingestion_job_failed_no_dead_letter(s, job, stage) ==
    [s EXCEPT !.jobs[job].status = "failed"]

\* ingestion_tracking.py lines 121-150: the job fails and a dead letter is recorded
mark_ingestion_job_failed(s, job, stage) ==
    [s EXCEPT !.jobs[job].status = "failed",
              !.dead_letters = Append(@, [job |-> job, stage |-> stage, resolved |-> FALSE])]

\* ingestion_tracking.py lines 153-167
_resolve_dlq(s) ==
    [s EXCEPT !.dead_letters = [k \in 1..Len(@) |-> [@[k] EXCEPT !.resolved = TRUE]]]

\* routes.py lines 390-433: a job row is created and the task is sent to the
\* broker; when the broker refuses it the document and the job fail
_queue_document_ingestion_job(s, sent) ==
    Let([s EXCEPT !.jobs = Append(@, [status |-> "queued", progress |-> 0])], LAMBDA t :
        IF sent THEN [t EXCEPT !.queue = Append(@, Len(t.jobs))]
        ELSE mark_ingestion_job_failed([t EXCEPT !.doc.status = "FAILED", !.doc.error = TRUE],
                                       Len(t.jobs), "queue"))

\* the state after the first upload of the document: its job is queued; the
\* collection does not exist yet or holds a point of another document
InitIng ==
    /\ ctx = Idle /\ chk = Idle /\ ret = Idle
    /\ qx = Idle /\ post = Idle /\ chat = Idle /\ kb = Idle /\ cjob = Idle
    /\ \E content \in IngContents, exists \in BOOLEAN :
         ing = [pc |-> "wait",
                doc |-> [status |-> "PENDING", content |-> content, error |-> FALSE],
                jobs |-> <<[status |-> "queued", progress |-> 0]>>,
                dead_letters |-> <<>>,
                queue |-> <<1>>,
                collection_exists |-> exists,
                points |-> IF exists
                           THEN {[id |-> 0, doc_id |-> OtherDoc, text |-> <<"b">>]} ELSE {},
                next_point |-> 1,
                job |-> 0, content |-> <<>>, chunks |-> <<>>,
                result |-> "none", indexed_runs |-> 0]

\* routes.py lines 507-550: upload_document replaces the content of the
\* document by a different one and queues a job
UploadReplace ==
    /\ Len(ing.jobs) < MaxJobs
    /\ \E content \in IngContents \ {ing.doc.content}, sent \in BOOLEAN :
         ing' = _queue_document_ingestion_job(
                    [ing EXCEPT !.doc = [status |-> "PENDING", content |-> content,
                                         error |-> FALSE]], sent)
    /\ UNCHANGED <<ctx, chk, ret, qx, post, chat, kb, cjob>>

\* routes.py lines 2245-2286: retry_document_ingestion, refused while the
\* document is PROCESSING
RetryIngestion ==
    /\ Len(ing.jobs) < MaxJobs
    /\ ing.doc.status # "PROCESSING"
    /\ \E sent \in BOOLEAN :
         ing' = _queue_document_ingestion_job(
                    [ing EXCEPT !.doc.status = "PENDING", !.doc.error = FALSE], sent)
    /\ UNCHANGED <<ctx, chk, ret, qx, post, chat, kb, cjob>>

\* lines 103-104: the worker takes the next job
IngestStart ==
    /\ ing.pc = "wait"
    /\ ing.queue # <<>>
    /\ ing' = _job_progress(
                  _update_doc_status([ing EXCEPT !.pc = "load", !.job = Head(ing.queue),
                                                 !.queue = Tail(@), !.result = "none",
                                                 !.content = <<>>, !.chunks = <<>>],
                                     "PROCESSING", FALSE), 5)
    /\ UNCHANGED <<ctx, chk, ret, qx, post, chat, kb, cjob>>

\* lines 105-120: the document row and the stored file are read; when the
\* read raises the run fails
IngestLoad ==
    /\ ing.pc = "load"
    /\ \E read \in BOOLEAN :
         ing' = IF read
                THEN [ing EXCEPT !.pc = "parse", !.content = ing.doc.content]
                ELSE mark_ingestion_job_failed(
                         _update_doc_status([ing EXCEPT !.pc = "wait", !.result = "failed"],
                                            "FAILED", TRUE), ing.job, "load")
    /\ UNCHANGED <<ctx, chk, ret, qx, post, chat, kb, cjob>>

\* lines 122-143: the content is parsed and chunked; with no chunk the run
\* ends as indexed
IngestChunk ==
    /\ ing.pc = "parse"
    /\ \E chunks \in {chunk_text(parse_document(ing.content), IngSettings.chunk_max_chars,
                                 IngSettings.chunk_overlap_chars,
                                 IngSettings.chunk_overlap_sentences,
                                 IngSettings.chunk_min_chars)} :
         ing' = IF chunks = <<>>
                THEN _resolve_dlq(_job_completed(
                         _update_doc_status([ing EXCEPT !.pc = "wait", !.result = "indexed",
                                                        !.indexed_runs = @ + 1],
                                            "INDEXED", FALSE)))
                ELSE _job_progress([ing EXCEPT !.pc = "embed", !.chunks = chunks], 30)
    /\ UNCHANGED <<ctx, chk, ret, qx, post, chat, kb, cjob>>

\* lines 145-162: the chunks are embedded, the collection of the resolved
\* embedding version is created when it is missing
IngestEmbed ==
    /\ ing.pc = "embed"
    /\ ing' = _job_progress([ing EXCEPT !.pc = "delete", !.collection_exists = TRUE], 70)
    /\ UNCHANGED <<ctx, chk, ret, qx, post, chat, kb, cjob>>

\* qdrant_client.py lines 71-84
delete_document_chunks(s, doc_id) ==
    IF ~s.collection_exists THEN s
    ELSE [s EXCEPT !.points = {p \in @ : p.doc_id # doc_id}]

\* lines 163-168
IngestDelete ==
    /\ ing.pc = "delete"
    /\ ing' = [delete_document_chunks(ing, ThisDoc) EXCEPT !.pc = "upsert"]
    /\ UNCHANGED <<ctx, chk, ret, qx, post, chat, kb, cjob>>

\* lines 169-177 and qdrant_client.py lines 67-68: one point with a fresh id per chunk
upsert_chunks(s, doc_id, chunks) ==
    [s EXCEPT !.points = @ \cup {[id |-> s.next_point + k - 1, doc_id |-> doc_id,
                                  text |-> chunks[k].text] : k \in 1..Len(chunks)},
              !.next_point = @ + Len(chunks)]

\* lines 169-183
IngestUpsert ==
    /\ ing.pc = "upsert"
    /\ ing' = _resolve_dlq(_job_completed(
                  _update_doc_status([upsert_chunks(ing, ThisDoc, ing.chunks)
                                          EXCEPT !.pc = "wait", !.result = "indexed",
                                                 !.indexed_runs = @ + 1],
                                     "INDEXED", FALSE)))
    /\ UNCHANGED <<ctx, chk, ret, qx, post, chat, kb, cjob>>

\* the stage recorded when a call raises at the position pc
FailureStages(pc) ==
    IF pc = "parse" THEN {"parse", "chunk"}
    ELSE IF pc = "embed" THEN {"embed", "index"}
    ELSE {"index"}

\* lines 184-187: a call of the parse, chunk, embed or index stage raises
IngestFail ==
    /\ ing.pc \in {"parse", "embed", "delete", "upsert"}
    /\ \E stage \in FailureStages(ing.pc) :
         ing' = mark_ingestion_job_failed(
                    _update_doc_status([ing EXCEPT !.pc = "wait", !.result = "failed"],
                                       "FAILED", TRUE), ing.job, stage)
    /\ UNCHANGED <<ctx, chk, ret, qx, post, chat, kb, cjob>>

NextIng ==
    \/ UploadReplace \/ RetryIngestion
    \/ IngestStart \/ IngestLoad \/ IngestChunk \/ IngestEmbed
    \/ IngestDelete \/ IngestUpsert \/ IngestFail

SpecIng == InitIng /\ [][NextIng]_vars

(* ===================== services/citations.py ============================== *)
(* A source is [snippet, metadata]; metadata is [doc_id, source, filename,    *)
(* title], a missing text being <<>> and a missing doc_id None.               *)

\* metadata.get("source") or metadata.get("filename") or metadata.get("title")
MetadataName(metadata) ==
    IF metadata.source # <<>> THEN metadata.source
    ELSE IF metadata.filename # <<>> THEN metadata.filename
    ELSE metadata.title

\* lines 10-15
source_name(source, index) ==
    IF strip(MetadataName(source.metadata)) # <<>> THEN strip(MetadataName(source.metadata))
    ELSE <<"S", "o", "u", "r", "c", "e", " ">> \o Decimal(index + 1)

\* CITATION_RE = \[Source\s+(\d+)\] with IGNORECASE, tried at s[i]: the index
\* of the closing bracket and the digits; end is 0 when it does not match
CitationAt(s, i) ==
    Let(i + 7 + RunLen(s, i + 7, WsChars), LAMBDA d :
    Let(d + RunLen(s, d, DigitChars), LAMBDA e :
        IF /\ i + 9 <= Len(s)
           /\ s[i] = "["
           /\ LowerStr(SubSeq(s, i + 1, i + 6)) = <<"s", "o", "u", "r", "c", "e">>
           /\ d > i + 7 /\ e > d /\ e <= Len(s) /\ s[e] = "]"
        THEN [end |-> e, digits |-> SubSeq(s, d, e - 1)]
        ELSE [end |-> 0, digits |-> <<>>]))

\* a has_citation that finds no marker
has_citation_never(answer) == FALSE

\* lines 18-19
has_citation(answer) == \E i \in 1..Len(answer) : CitationAt(answer, i).end # 0

\* lines 22-32: the 0-based indices of the cited sources that exist, ascending
citation_indices(answer, sources) ==
    SortedSeq({ParseInt(CitationAt(answer, i).digits) - 1 :
                 i \in {j \in 1..Len(answer) : CitationAt(answer, j).end # 0}}
              \cap (0..(Len(sources) - 1)))

\* lines 35-42
enforce_citation_format(answer, sources, enabled) ==
    Let(strip(answer), LAMBDA normalized :
        IF ~enabled \/ sources = <<>> THEN normalized
        ELSE IF has_citation(normalized) THEN normalized
        ELSE strip(normalized \o <<"\n", "\n", "C", "i", "t", "a", "t", "i", "o", "n", "s", ":", " ">>
                   \o Join([i \in 1..Min(Len(sources), 3) |->
                               <<"[", "S", "o", "u", "r", "c", "e", " ">> \o Decimal(i) \o <<"]">>],
                           <<",", " ">>)))

\* line 50: the default of max_items
LegendMaxItems == 8

\* legend lines that are not grouped by name: one line per cited source
LegendLines_ungrouped(used, names, max_groups) ==
    [k \in 1..Len(used) |-> <<"[", "S", "o", "u", "r", "c", "e", " ">> \o Decimal(used[k] + 1) \o <<"]", " ">> \o names[k]]

\* lines 64-79: the legend lines for the cited indices used; names[k] is the
\* name of the source used[k]; at most max_groups names get a line
LegendLines(used, names, max_groups) ==
    Let(Where(names, LAMBDA k : \A m \in 1..(k - 1) : names[m] # names[k]), LAMBDA firsts :
        [j \in 1..Min(Len(firsts), max_groups) |->
            Let(SelectSeq(used, LAMBDA idx :
                    \E k \in 1..Len(used) : used[k] = idx /\ names[k] = names[firsts[j]]),
                LAMBDA group :
                <<"[", "S", "o", "u", "r", "c", "e", " ">> \o Join([g \in 1..Len(group) |-> Decimal(group[g] + 1)], <<",", " ">>)
                \o <<"]", " ">> \o names[firsts[j]])])

\* lines 45-80
append_citation_legend(answer, sources, legend_header, max_items) ==
    Let(strip(answer), LAMBDA normalized :
        IF normalized = <<>> \/ sources = <<>> THEN normalized
        ELSE IF Contains(LowerStr(normalized), LowerStr(legend_header \o <<":">>))
        THEN normalized
        ELSE Let(citation_indices(normalized, sources), LAMBDA used :
             IF used = <<>> THEN normalized
             ELSE normalized \o <<"\n", "\n">>
                  \o Join(<<legend_header \o <<":">> >>
                          \o LegendLines(used,
                                         [k \in 1..Len(used) |->
                                             source_name(sources[used[k] + 1], used[k])],
                                         Max(1, max_items)),
                          <<"\n">>)))

(* ===================== services/faithfulness.py =========================== *)
(* Ratios and the score are exact fractions; the score is in thousandths.     *)

FaithStopwords ==
    { <<"a">>, <<"a", "n">>, <<"a", "n", "d">>, <<"a", "r", "e">>,
      <<"a", "s">>, <<"a", "t">>, <<"b", "e">>, <<"b", "y">>,
      <<"f", "o", "r">>, <<"f", "r", "o", "m">>, <<"i", "n">>, <<"i", "s">>,
      <<"i", "t">>, <<"o", "f">>, <<"o", "n">>, <<"o", "r">>,
      <<"t", "h", "a", "t">>, <<"t", "h", "e">>, <<"t", "o">>, <<"w", "a", "s">>,
      <<"w", "e", "r", "e">>, <<"w", "i", "t", "h">> }

\* lines 36-43: the answer up to a legend "\n\s*source references\s*:\s*"
_clean_answer(answer) ==
    Let(strip(answer), LAMBDA normalized :
    Let(Where(normalized, LAMBDA i :
            /\ normalized[i] = "\n"
            /\ Let(i + 1 + RunLen(normalized, i + 1, WsChars), LAMBDA j :
                   /\ j + 16 <= Len(normalized)
                   /\ LowerStr(SubSeq(normalized, j, j + 16)) = <<"s", "o", "u", "r", "c", "e", " ", "r", "e", "f", "e", "r", "e", "n", "c", "e", "s">>
                   /\ Let(j + 17 + RunLen(normalized, j + 17, WsChars), LAMBDA k :
                          k <= Len(normalized) /\ normalized[k] = ":"))),
        LAMBDA marker :
        IF marker = <<>> THEN normalized ELSE strip(SubSeq(normalized, 1, marker[1] - 1))))

\* lines 46-51: the sentences and lines of the cleaned answer that have at
\* least 8 characters
_split_claims(answer) ==
    SelectSeq(SplitSentences(_clean_answer(answer), TRUE), LAMBDA claim : Len(claim) >= 8)

\* lines 54-59
_claim_tokens(claim) ==
    SelectSeq(_tokenize(claim), LAMBDA token :
        Len(token) > 2 /\ token \notin FaithStopwords)

\* lines 62-68
_source_text(sources) ==
    Join(SelectSeq([k \in 1..Len(sources) |-> LowerStr(strip(sources[k].snippet))],
                   LAMBDA snippet : snippet # <<>>),
         <<"\n">>)

\* the end of the greedy repetition (?:\s*,\s*\d+)* that starts at s[e]
RECURSIVE NumberListEnd(_, _)
NumberListEnd(s, e) ==
    Let(e + RunLen(s, e, WsChars), LAMBDA c :
        IF c <= Len(s) /\ s[c] = ","
        THEN Let(c + 1 + RunLen(s, c + 1, WsChars), LAMBDA d :
                 IF RunLen(s, d, DigitChars) >= 1
                 THEN NumberListEnd(s, d + RunLen(s, d, DigitChars)) ELSE e)
        ELSE e)

\* CITATION_RE = \[Source\s+\d+(?:\s*,\s*\d+)*\] with IGNORECASE, tried at
\* s[i]: the index of the closing bracket, 0 when it does not match
ClaimCitationEnd(s, i) ==
    Let(i + 7 + RunLen(s, i + 7, WsChars), LAMBDA d :
        IF /\ i + 9 <= Len(s)
           /\ s[i] = "["
           /\ LowerStr(SubSeq(s, i + 1, i + 6)) = <<"s", "o", "u", "r", "c", "e">>
           /\ d > i + 7 /\ RunLen(s, d, DigitChars) >= 1
        THEN Let(NumberListEnd(s, d + RunLen(s, d, DigitChars)), LAMBDA e :
                 IF e <= Len(s) /\ s[e] = "]" THEN e ELSE 0)
        ELSE 0)

\* CITATION_RE.sub("", claim)
RemoveCitations(claim) ==
    Let(UNION {i..ClaimCitationEnd(claim, i) :
                 i \in {j \in 1..Len(claim) : ClaimCitationEnd(claim, j) # 0}},
        LAMBDA cited :
        Let(Where(claim, LAMBDA i : i \notin cited), LAMBDA keep :
            [k \in 1..Len(keep) |-> claim[keep[k]]]))

\* lines 71-83: the claim occurs in the sources, or at least 45 % of its
\* tokens do
_claim_is_supported(claim, source_corpus, source_tokens) ==
    Let(LowerStr(strip(RemoveCitations(claim))), LAMBDA compact_claim :
        IF compact_claim = <<>> THEN FALSE
        ELSE IF Contains(source_corpus, compact_claim) THEN TRUE
        ELSE Let(_claim_tokens(compact_claim), LAMBDA tokens :
                 /\ tokens # <<>>
                 /\ 100 * Cardinality({k \in 1..Len(tokens) : tokens[k] \in source_tokens})
                      >= 45 * Len(tokens)))

\* round(num / den) to the nearest integer, a tie going to the even one
RoundHalfEven(num, den) ==
    IF 2 * (num % den) > den \/ (2 * (num % den) = den /\ (num \div den) % 2 = 1)
    THEN num \div den + 1 ELSE num \div den

\* lines 100-105: the score in thousandths from the number of claims, of
\* supported claims, of claims with a citation and of sources
Score(claims, supported, with_citation, source_count) ==
    RoundHalfEven(Max(0, Min(1000 * Max(1, claims),
                             600 * supported + 300 * with_citation
                             + 25 * Min(4, source_count) * Max(1, claims))),
                  Max(1, claims))

\* lines 92-105
ScoreClaims(claims, sources) ==
    Let(_source_text(sources), LAMBDA source_corpus :
    Let({_tokenize(source_corpus)[k] : k \in 1..Len(_tokenize(source_corpus))},
        LAMBDA source_tokens :
        IF source_tokens = {} THEN 0
        ELSE Score(Len(claims),
                   Cardinality({k \in 1..Len(claims) :
                       _claim_is_supported(claims[k], source_corpus, source_tokens)}),
                   Cardinality({k \in 1..Len(claims) :
                       \E i \in 1..Len(claims[k]) : ClaimCitationEnd(claims[k], i) # 0}),
                   Len(sources))))

\* a faithfulness_score without the early return of lines 89-90
faithfulness_score_no_early_return(answer, sources) ==
    ScoreClaims(_split_claims(answer), sources)

\* lines 86-105, in thousandths
faithfulness_score(answer, sources) ==
    IF _split_claims(answer) = <<>> \/ sources = <<>> THEN 0
    ELSE ScoreClaims(_split_claims(answer), sources)

(* ============ routes.py / tasks/chat.py: answer post-processing =========== *)
(* The steps every chat flow applies to an answer: enforce_citation_format,   *)
(* append_citation_legend, faithfulness_score.                                *)

(* ------------------------- model bounds ------------------------------- *)
MaxPieces == 2
MaxLegendSources == 9

LegendHeader == <<"S", "o", "u", "r", "c", "e", " ", "r", "e", "f", "e", "r", "e", "n", "c", "e", "s">>

\* what the answers of the model are made of
PostPieces ==
    << <<"a", "b", "c", " ", "b", "c", "a", " ", "t", "h", "e", " ", "c", "a", "b", " ", "[", "S", "o", "u", "r", "c", "e", " ", "1", "]", ".">>,
       <<"[", "s", "o", "u", "r", "c", "e", " ", " ", "2", "]">>,
       <<"a", "b", "c", " ", "[", "S", "o", "u", "r", "c", "e", " ", "1", ",", " ", "3", "]", ".">>,
       <<"[", "S", "o", "u", "r", "c", "e", " ", "1", "2", "]">>,
       <<"a", "b", ".">>,
       <<" ", "\n">>,
       <<"\n", "S", "o", "u", "r", "c", "e", " ", "r", "e", "f", "e", "r", "e", "n", "c", "e", "s", ":", "\n", "[", "S", "o", "u", "r", "c", "e", " ", "1", "]", " ", "a">>,
       <<"x", "y", "z", " ", "x", "y", "z", " ", "x", "y", "z", ".">>,
       <<"A", "b", "c", " ", "b", "c", "a", ".">> >>

\* an answer that cites the sources 1..n
CitesAll(n) == Join([k \in 1..n |-> <<"[", "S", "o", "u", "r", "c", "e", " ">> \o Decimal(k) \o <<"]">>], <<" ">>)

PostAnswers ==
    {CitesAll(MaxLegendSources)}
    \cup UNION {{Join([k \in 1..n |-> PostPieces[p[k]]], <<" ">>) :
                   p \in [1..n -> 1..Len(PostPieces)]} : n \in 0..MaxPieces}

Source(snippet, doc_id, source, filename, title) ==
    [snippet |-> snippet,
     metadata |-> [doc_id |-> doc_id, source |-> source, filename |-> filename, title |-> title]]

PostSourceLists ==
    { <<>>,
      << Source(<<"a", "b", "c", " ", "b", "c", "a", " ", "t", "h", "e", " ", "c", "a", "b", ".">>, Some(1), <<"a">>, <<>>, <<>>) >>,
      << Source(<<"a", "b", "c", " ", "b", "c", "a", " ", "t", "h", "e", " ", "c", "a", "b", ".">>, Some(1), <<"a">>, <<>>, <<>>),
         Source(<<"b", "c", "a">>, Some(2), <<"b">>, <<>>, <<>>),
         Source(<<"c", "a", "b", ".">>, Some(1), <<"a">>, <<>>, <<>>) >>,
      << Source(<<" ">>, None, <<" ">>, <<"f">>, <<>>),
         Source(<<"c", "a", "b">>, None, <<>>, <<>>, <<"A">>) >>,
      [k \in 1..MaxLegendSources |-> Source(<<"a", "b", "c">>, None, <<>>, <<>>, <<>>)] }

\* an answer of the LLM and the sources assemble_context chose; score is -1
\* until it is computed
InitPost ==
    /\ ctx = Idle /\ chk = Idle /\ ret = Idle /\ ing = Idle
    /\ qx = Idle /\ chat = Idle /\ kb = Idle /\ cjob = Idle
    /\ \E answer \in PostAnswers, sources \in PostSourceLists, enabled \in BOOLEAN :
         post = [pc |-> "answer", answer |-> answer, sources |-> sources,
                 chat_enforce_citation_format |-> enabled, out |-> answer, score |-> -1]

\* routes.py line 921
EnforceCitationFormat ==
    /\ post.pc = "answer"
    /\ post' = [post EXCEPT !.pc = "enforced",
                            !.out = enforce_citation_format(post.answer, post.sources,
                                        post.chat_enforce_citation_format)]
    /\ UNCHANGED <<ctx, chk, ret, ing, qx, chat, kb, cjob>>

\* routes.py line 922
AppendCitationLegend ==
    /\ post.pc = "enforced"
    /\ post' = [post EXCEPT !.pc = "legend",
                            !.out = append_citation_legend(post.out, post.sources,
                                        LegendHeader, LegendMaxItems)]
    /\ UNCHANGED <<ctx, chk, ret, ing, qx, chat, kb, cjob>>

\* routes.py line 924
FaithfulnessScore ==
    /\ post.pc = "legend"
    /\ post' = [post EXCEPT !.pc = "scored",
                            !.score = faithfulness_score(post.out, post.sources)]
    /\ UNCHANGED <<ctx, chk, ret, ing, qx, chat, kb, cjob>>

NextPost == EnforceCitationFormat \/ AppendCitationLegend \/ FaithfulnessScore

SpecPost == InitPost /\ [][NextPost]_vars

(* ===================== services/query_expansion.py ======================== *)
(* One call of build_query_variants or build_query_variants_sync.  The HyDE   *)
(* prompt is not modelled: the LLM raises or returns any text.                *)

QxStopwords ==
    { <<"a">>, <<"a", "n">>, <<"a", "n", "d">>, <<"a", "r", "e">>,
      <<"a", "s">>, <<"a", "t">>, <<"b", "e">>, <<"b", "y">>,
      <<"f", "o", "r">>, <<"f", "r", "o", "m">>, <<"h", "o", "w">>, <<"i", "n">>,
      <<"i", "s">>, <<"i", "t">>, <<"o", "f">>, <<"o", "n">>,
      <<"o", "r">>, <<"t", "h", "a", "t">>, <<"t", "h", "e">>, <<"t", "o">>,
      <<"w", "e">>, <<"w", "h", "a", "t">>, <<"w", "h", "e", "n">>, <<"w", "h", "e", "r", "e">>,
      <<"w", "h", "i", "c", "h">>, <<"w", "h", "o">>, <<"w", "h", "y">>, <<"w", "i", "t", "h">> }

MaxKeywordTerms == 12
HydeMinChars == 120

\* lines 44-58 with the case-sensitive key `normalized` in place of normalized.lower()
_dedupe_variants_case_sensitive(values, max_items) ==
    Let([k \in 1..Len(values) |-> strip(values[k])], LAMBDA normalized :
    Let(Where(normalized, LAMBDA k :
            /\ normalized[k] # <<>>
            /\ \A m \in 1..(k - 1) : normalized[m] # normalized[k]),
        LAMBDA keep :
        [j \in 1..Min(Len(keep), Max(1, max_items)) |-> normalized[keep[j]]]))

\* lines 44-58
_dedupe_variants(values, max_items) ==
    Let([k \in 1..Len(values) |-> strip(values[k])], LAMBDA normalized :
    Let(Where(normalized, LAMBDA k :
            /\ normalized[k] # <<>>
            /\ \A m \in 1..(k - 1) : LowerStr(normalized[m]) # LowerStr(normalized[k])),
        LAMBDA keep :
        \* the loop appends before it tests len(out) >= max_items
        [j \in 1..Min(Len(keep), Max(1, max_items)) |-> normalized[keep[j]]]))

\* lines 61-66
_keyword_variant(query) ==
    Let(SelectSeq(_tokenize(query), LAMBDA token : Len(token) > 2 /\ token \notin QxStopwords),
        LAMBDA filtered :
        strip(Join(Prefix(IF filtered = <<>> THEN Prefix(_tokenize(query), MaxKeywordTerms)
                          ELSE filtered,
                          MaxKeywordTerms),
                   <<" ">>)))

\* lines 69-76
_semantic_variant(query) ==
    IF strip(query) = <<>> THEN <<>>
    ELSE <<"R", "e", "l", "e", "v", "a", "n", "t", " ", "d", "o", "c", "u", "m", "e", "n", "t", "a", "t", "i", "o", "n", " ", "d", "e", "t", "a", "i", "l", "s", " ", "f", "o", "r", ":", " ">> \o strip(query)
         \o <<".", " ", "I", "n", "c", "l", "u", "d", "e", " ", "p", "o", "l", "i", "c", "y", " ", "r", "u", "l", "e", "s", ",", " ", "e", "x", "c", "e", "p", "t", "i", "o", "n", "s", ",", " ", "p", "r", "o", "c", "e", "d", "u", "r", "e", "s", ",", " ", "a", "n", "d", " ", "r", "e", "q", "u", "i", "r", "e", "d", " ", "a", "p", "p", "r", "o", "v", "a", "l", "s", ".">>

\* lines 119-125: the original question, its keywords, its semantic rewrite
LexicalCandidates(normalized) ==
    <<normalized>>
    \o (IF _keyword_variant(normalized) # <<>> THEN <<_keyword_variant(normalized)>> ELSE <<>>)
    \o (IF _semantic_variant(normalized) # <<>> THEN <<_semantic_variant(normalized)>> ELSE <<>>)

\* an LLM call: it raises, or it returns text
LlmRaises == [raises |-> TRUE, text |-> <<>>]
LlmReturns(text) == [raises |-> FALSE, text |-> text]

\* a _hyde_variant that lets the exception of the LLM call pass
_hyde_variant_propagates(st, normalized, llm) ==
    [raised |-> st.retrieval_enable_hyde /\ normalized # <<>> /\ llm.raises,
     called |-> st.retrieval_enable_hyde /\ normalized # <<>>,
     hyde |-> <<>>]

\* lines 79-108: [raised, called, hyde]: called says that llm_generate was
\* called, hyde is <<>> for None
_hyde_variant(st, normalized, llm) ==
    IF ~st.retrieval_enable_hyde \/ normalized = <<>>
    THEN [raised |-> FALSE, called |-> FALSE, hyde |-> <<>>]
    ELSE IF llm.raises THEN [raised |-> FALSE, called |-> TRUE, hyde |-> <<>>]
    ELSE [raised |-> FALSE, called |-> TRUE,
          hyde |-> Prefix(Join(SplitWords(llm.text), <<" ">>),
                          Max(HydeMinChars, st.retrieval_hyde_max_chars))]

(* ------------------------- model bounds ------------------------------- *)
\* the number of words of the longest text the LLM returns
HydeLongWords == 41

QxQueries ==
    { <<>>, <<" ">>, <<"a", "b", "c", " ", "d", "e", "f">>, <<" ", "A", "b", "c", " ", "D", "e", "f", " ">>, <<"w", "h", "a", "t", " ", "i", "s", " ", "t", "h", "e", " ", "a", "b", "c">>, <<"i", "s", " ", "i", "t">>, <<"a", "b">> }

QxSettings ==
    [retrieval_enable_query_expansion : BOOLEAN,
     retrieval_enable_hyde : BOOLEAN,
     retrieval_query_expansion_max_variants : {0, 2, 4},
     retrieval_hyde_max_chars : {0}]

LlmOutcomes ==
    {LlmRaises} \cup
    {LlmReturns(text) : text \in { <<>>, <<" ", "\n">>, <<"a", "b", "c", " ", "d", "e", "f">>, <<"x", "y", "z", " ", " ", "a", "b", "c", "\n", "x", "y", "z">>,
                                   Rep(<<"a", "b", " ">>, HydeLongWords) }}

\* no LLM call was made
NoLlmCall == [raises |-> FALSE, text |-> <<"-">>]

\* a call build_query_variants(query) (entry "async") or
\* build_query_variants_sync(query) (entry "sync"), the latter inside a
\* running event loop or not
InitQx ==
    /\ ctx = Idle /\ chk = Idle /\ ret = Idle /\ ing = Idle
    /\ post = Idle /\ chat = Idle /\ kb = Idle /\ cjob = Idle
    /\ \E query \in QxQueries, st \in QxSettings,
          call \in {<<"async", FALSE>>, <<"sync", FALSE>>, <<"sync", TRUE>>} :
         qx = [pc |-> "start", entry |-> call[1], running_loop |-> call[2],
               query |-> query, st |-> st, candidates |-> <<>>,
               llm |-> NoLlmCall, out |-> <<>>]

\* lines 137-151: inside a running event loop the sync wrapper expands
\* lexically and makes no LLM call
QxSyncInLoop ==
    /\ qx.pc = "start"
    /\ qx.entry = "sync" /\ qx.running_loop
    /\ qx' = [qx EXCEPT !.pc = "done",
                        !.out = IF ~qx.st.retrieval_enable_query_expansion \/ strip(qx.query) = <<>>
                                THEN <<strip(qx.query)>>
                                ELSE _dedupe_variants(LexicalCandidates(strip(qx.query)),
                                         Max(1, qx.st.retrieval_query_expansion_max_variants))]
    /\ UNCHANGED <<ctx, chk, ret, ing, post, chat, kb, cjob>>

\* lines 113-125, reached directly or through asyncio.run of line 153
QxStart ==
    /\ qx.pc = "start"
    /\ ~(qx.entry = "sync" /\ qx.running_loop)
    /\ qx' = IF strip(qx.query) = <<>> THEN [qx EXCEPT !.pc = "done", !.out = << <<>> >>]
             ELSE IF ~qx.st.retrieval_enable_query_expansion
             THEN [qx EXCEPT !.pc = "done", !.out = <<strip(qx.query)>>]
             ELSE [qx EXCEPT !.pc = "hyde", !.candidates = LexicalCandidates(strip(qx.query))]
    /\ UNCHANGED <<ctx, chk, ret, ing, post, chat, kb, cjob>>

\* lines 127-129: the HyDE variant, with whatever the LLM does
QxHyde ==
    /\ qx.pc = "hyde"
    /\ \E llm \in LlmOutcomes :
       \E h \in {_hyde_variant(qx.st, strip(qx.query), llm)} :
         qx' = IF h.raised THEN [qx EXCEPT !.pc = "raised", !.llm = llm]
               ELSE [qx EXCEPT !.pc = "dedupe",
                               !.llm = IF h.called THEN llm ELSE NoLlmCall,
                               !.candidates = IF h.hyde # <<>> THEN Append(@, h.hyde) ELSE @]
    /\ UNCHANGED <<ctx, chk, ret, ing, post, chat, kb, cjob>>

\* lines 131-132
QxFinish ==
    /\ qx.pc = "dedupe"
    /\ qx' = [qx EXCEPT !.pc = "done",
                        !.out = _dedupe_variants(qx.candidates,
                                    Max(1, qx.st.retrieval_query_expansion_max_variants))]
    /\ UNCHANGED <<ctx, chk, ret, ing, post, chat, kb, cjob>>

NextQx == QxSyncInLoop \/ QxStart \/ QxHyde \/ QxFinish

SpecQx == InitQx /\ [][NextQx]_vars

(* ===================== api/routes.py, tasks/chat.py: the chat flows ======= *)
(* One request of chat_rag (answered synchronously), chat_rag_stream or       *)
(* process_chat_job.  Query expansion runs as the qx component and            *)
(* assemble_context as the ctx component; hybrid_retrieve and the LLM are the *)
(* environment: each call raises or returns one of a few values.  The chat    *)
(* history is empty and the database keeps nothing but the outcome.           *)

NoDocsAnswer ==
    <<"N", "o", " ", "r", "e", "l", "e", "v", "a", "n", "t", " ", "d", "o", "c", "u", "m", "e", "n", "t", "s", " ", "f", "o", "u", "n", "d", " ", "i", "n", " ", "t", "h", "e", " ", "s", "e", "l", "e", "c", "t", "e", "d", " ", "k", "n", "o", "w", "l", "e", "d", "g", "e", " ", "b", "a", "s", "e", " ", "y", "e", "t", ".", " ", "U", "p", "l", "o", "a", "d", " ", "d", "o", "c", "u", "m", "e", "n", "t", "s", " ", "a", "n", "d", " ", "t", "r", "y", " ", "a", "g", "a", "i", "n", ".">>

NoResponseAnswer == <<"N", "o", " ", "r", "e", "s", "p", "o", "n", "s", "e", " ", "g", "e", "n", "e", "r", "a", "t", "e", "d", ".">>

\* str(e) of the exception a failing backend raises
ErrorText == <<"b", "o", "o", "m">>

\* routes.py lines 708-713: the detail of the HTTPException
retrieval_detail(error) == <<"R", "e", "t", "r", "i", "e", "v", "a", "l", " ", "b", "a", "c", "k", "e", "n", "d", " ", "u", "n", "a", "v", "a", "i", "l", "a", "b", "l", "e", ":", " ">> \o error

\* the stream's answer after a failed retrieval replaced by the no-documents answer
retrieval_unavailable_answer_no_docs(detail) == NoDocsAnswer

\* routes.py line 1031
retrieval_unavailable_answer(detail) ==
    <<"R", "e", "t", "r", "i", "e", "v", "a", "l", " ", "u", "n", "a", "v", "a", "i", "l", "a", "b", "l", "e", " ", "(">> \o detail \o <<")", ".", " ", "P", "l", "e", "a", "s", "e", " ", "t", "r", "y", " ", "a", "g", "a", "i", "n", " ", "s", "h", "o", "r", "t", "l", "y", ".">>

\* a context test that never finds the context empty
no_context_never(context_blocks) == FALSE

\* "if not context_blocks": routes.py lines 871 and 1056, tasks/chat.py line 197
no_context(context_blocks) == context_blocks = <<>>

FallbackPreviewChars == 220
FallbackMaxSnippets == 3

\* routes.py lines 760-776, tasks/chat.py lines 97-112
_fallback_answer_from_sources(sources, detail) ==
    Let(SelectSeq([k \in 1..Len(sources) |->
                      strip([i \in 1..Len(sources[k].snippet) |->
                                IF sources[k].snippet[i] = "\n" THEN " "
                                ELSE sources[k].snippet[i]])],
                  LAMBDA snippet : snippet # <<>>),
        LAMBDA snippets :
        IF snippets = <<>>
        THEN <<"L", "L", "M", " ", "u", "n", "a", "v", "a", "i", "l", "a", "b", "l", "e", " ", "(">> \o detail \o <<")", ".", " ", "N", "o", " ", "r", "e", "t", "r", "i", "e", "v", "e", "d", " ", "c", "o", "n", "t", "e", "n", "t", " ", "i", "s", " ", "a", "v", "a", "i", "l", "a", "b", "l", "e", " ", "y", "e", "t", ".">>
        ELSE <<"L", "L", "M", " ", "u", "n", "a", "v", "a", "i", "l", "a", "b", "l", "e", " ", "(">> \o detail
             \o <<")", ".", " ", "I", " ", "c", "o", "u", "l", "d", " ", "n", "o", "t", " ", "g", "e", "n", "e", "r", "a", "t", "e", " ", "a", " ", "m", "o", "d", "e", "l", " ", "a", "n", "s", "w", "e", "r", ".", " ", "T", "o", "p", " ", "r", "e", "t", "r", "i", "e", "v", "e", "d", " ", "e", "x", "c", "e", "r", "p", "t", "s", ":", "\n">>
             \o Join([k \in 1..Min(FallbackMaxSnippets, Len(snippets)) |->
                         <<"-", " ">> \o Prefix(snippets[k], FallbackPreviewChars)
                         \o (IF Len(snippets[k]) > FallbackPreviewChars THEN Ellipsis ELSE <<>>)],
                     <<"\n">>))

\* routes.py lines 351-359, tasks/chat.py lines 70-78: "doc:{doc_id}",
\* "name:{name}" or "idx:{index}" as a tagged pair
_source_identity(source, index) ==
    IF source.metadata.doc_id.some THEN <<"doc", source.metadata.doc_id.v>>
    ELSE IF strip(MetadataName(source.metadata)) # <<>>
    THEN <<"name", LowerStr(strip(MetadataName(source.metadata)))>>
    ELSE <<"idx", index>>

\* _dedupe_sources_for_chat without the per-document branch
_dedupe_sources_for_chat_first_rows(sources, limit, chat_unique_sources_per_document) ==
    PySlice(sources, limit)

\* routes.py lines 362-375, tasks/chat.py lines 81-94; index is zero-based
_dedupe_sources_for_chat(sources, limit, chat_unique_sources_per_document) ==
    IF ~chat_unique_sources_per_document THEN PySlice(sources, limit)
    ELSE Let(Where(sources, LAMBDA k :
                 \A m \in 1..(k - 1) :
                     _source_identity(sources[m], m - 1) # _source_identity(sources[k], k - 1)),
             LAMBDA keep :
             \* the loop appends before it tests len(deduped) >= limit
             [j \in 1..Min(Len(keep), Max(1, limit)) |-> sources[keep[j]]])

\* routes.py lines 856, 1002, tasks/chat.py line 177
source_limit(st) == Max(1, st.chat_context_max_sources)

(* ------------------------- model inputs ------------------------------- *)
\* a row of hybrid_retrieve as _retrieve_for_chat maps it
Row(snippet, score, doc_id, source, filename, title) ==
    [snippet |-> snippet, score |-> score,
     metadata |-> [doc_id |-> doc_id, source |-> source, filename |-> filename, title |-> title]]

RowDocA == Row(<<"a", "b", "c", " ", "b", "c", "a", ".">>, 2, Some(1), <<"a">>, <<>>, <<>>)
RowDocA2 == Row(<<"b", "c", "a", " ", "a", "b", "c", ".">>, 1, Some(1), <<"a">>, <<>>, <<>>)
RowNameB == Row(<<"c", "a", "b", ".">>, 1, None, <<" ", "B", " ">>, <<>>, <<>>)
RowFileB == Row(<<"a", "b", "c", ".">>, 2, None, <<>>, <<"b">>, <<>>)
RowBlank == Row(<<" ">>, 1, None, <<>>, <<>>, <<>>)
RowBlankName == Row(<<"\n">>, 1, None, <<" ">>, <<"f">>, <<>>)

\* what hybrid_retrieve returns when it does not raise
RowLists ==
    { <<>>, <<RowBlank>>, <<RowDocA>>, <<RowDocA, RowDocA2, RowNameB>>,
      <<RowNameB, RowFileB, RowDocA>>, <<RowBlank, RowBlankName, RowBlank>>,
      <<RowDocA2, RowNameB, RowDocA, RowFileB>> }

\* what the answering LLM call does
AnswerOutcomes ==
    {LlmRaises} \cup
    {LlmReturns(text) : text \in { <<>>, <<"a", "b", "c", " ", "b", "c", "a", ".">>, <<"a", "b", "c", " ", "b", "c", "a", " ", "[", "S", "o", "u", "r", "c", "e", " ", "1", "]", ".">> }}

ChatSettings ==
    [chat_context_max_sources : {0, 2},
     chat_unique_sources_per_document : BOOLEAN,
     chat_enforce_citation_format : BOOLEAN,
     chat_context_max_chars_per_source : {100},
     retrieval_enable_query_expansion : {TRUE},
     retrieval_enable_hyde : BOOLEAN,
     retrieval_query_expansion_max_variants : {4},
     retrieval_hyde_max_chars : {0},
     chat_model_context_tokens : {1024},
     chat_context_budget_ratio : {25},
     chat_context_reserved_tokens : {0},
     chat_context_min_tokens_per_source : {24},
     chat_context_max_tokens_per_source : {40},
     chat_context_compression_enabled : {TRUE},
     chat_context_compression_target_ratio : {60}]

\* the three flows; a job may be gone from the database, and the task may
\* run inside an event loop
ChatCalls ==
    { [flow |-> "chat_rag", job_found |-> TRUE, running_loop |-> FALSE],
      [flow |-> "chat_rag_stream", job_found |-> TRUE, running_loop |-> FALSE],
      [flow |-> "process_chat_job", job_found |-> TRUE, running_loop |-> FALSE],
      [flow |-> "process_chat_job", job_found |-> TRUE, running_loop |-> TRUE],
      [flow |-> "process_chat_job", job_found |-> FALSE, running_loop |-> FALSE] }

InitChat ==
    /\ ctx = Idle /\ chk = Idle /\ ret = Idle /\ ing = Idle
    /\ qx = Idle /\ post = Idle /\ kb = Idle /\ cjob = Idle
    /\ \E call \in ChatCalls, st \in ChatSettings, message \in {<<"a", "b", "c">>, <<" ">>} :
         chat = [pc |-> "start", flow |-> call.flow, job_found |-> call.job_found,
                 running_loop |-> call.running_loop, message |-> message, st |-> st,
                 query_variants |-> <<>>, rows |-> <<>>, retrieved |-> <<>>,
                 retrieval_raised |-> FALSE, assembled |-> FALSE,
                 sources |-> <<>>, context_blocks |-> <<>>, answer |-> <<>>,
                 llm_calls |-> <<>>, events |-> <<>>, outcome |-> "none"]

\* routes.py lines 845-858 and 976-1021, tasks/chat.py lines 159-179: up to
\* the call of build_query_variants or build_query_variants_sync
ChatStart ==
    /\ chat.pc = "start"
    /\ IF chat.flow = "process_chat_job" /\ ~chat.job_found
       THEN /\ chat' = [chat EXCEPT !.pc = "done", !.outcome = "not_found"]
            /\ UNCHANGED qx
       ELSE /\ chat' = [chat EXCEPT !.pc = "expand"]
            /\ qx' = [pc |-> "start",
                      entry |-> IF chat.flow = "process_chat_job" THEN "sync" ELSE "async",
                      running_loop |-> chat.running_loop,
                      query |-> chat.message, st |-> chat.st, candidates |-> <<>>,
                      llm |-> NoLlmCall, out |-> <<>>]
    /\ UNCHANGED <<ctx, chk, ret, ing, post, kb, cjob>>

\* the start of assemble_context(query, history, sources, max_sources,
\* per_source_char_limit): routes.py lines 721-729, tasks/chat.py lines 187-193
AssembleCall(c, sources) ==
    [pc |-> "start", query |-> c.message, history |-> <<>>,
     sources |-> sources, max_sources |-> source_limit(c.st),
     per_source_char_limit |-> Max(CharLimitFloor, c.st.chat_context_max_chars_per_source),
     st |-> c.st, ranked |-> <<>>, arranged |-> <<>>, token_budget |-> 0,
     min_tokens_per_source |-> 0, max_tokens_per_source |-> 0,
     i |-> 1, chosen |-> <<>>, used_tokens |-> 0, compressed_sources |-> 0,
     fallback |-> FALSE, context_blocks |-> <<>>]

\* hybrid_retrieve raised: HTTP 503 out of chat_rag (routes.py lines 706-713),
\* the fallback answer and the error event of the stream (lines 1028-1034),
\* the FAILED job (tasks/chat.py lines 259-271)
RetrievalFailed(c) ==
    IF c.flow = "chat_rag"
    THEN [c EXCEPT !.pc = "done", !.retrieval_raised = TRUE, !.outcome = "http_503"]
    ELSE IF c.flow = "chat_rag_stream"
    THEN [c EXCEPT !.pc = "post", !.retrieval_raised = TRUE,
                   !.answer = retrieval_unavailable_answer(strip(retrieval_detail(ErrorText))),
                   !.events = Append(@, <<"error", "retrieve">>),
                   !.sources = <<>>]
    ELSE [c EXCEPT !.pc = "done", !.retrieval_raised = TRUE, !.outcome = "failed"]

\* _retrieve_for_chat: routes.py lines 684-713, tasks/chat.py lines 53-67,
\* and the start of assemble_context on what it returns
ChatRetrieve ==
    /\ chat.pc = "expand"
    /\ qx.pc = "done"
    /\ \E c \in {[chat EXCEPT !.query_variants = qx.out,
                              !.llm_calls = IF qx.llm # NoLlmCall THEN Append(@, "hyde") ELSE @]} :
         \/ /\ chat' = RetrievalFailed(c)
            /\ UNCHANGED ctx
         \/ \E rows \in RowLists :
            \E retrieved \in {_dedupe_sources_for_chat(rows, source_limit(c.st),
                                  c.st.chat_unique_sources_per_document)} :
              /\ chat' = [c EXCEPT !.pc = "assemble", !.rows = rows, !.retrieved = retrieved]
              /\ ctx' = AssembleCall(c, retrieved)
    /\ qx' = Idle
    /\ UNCHANGED <<chk, ret, ing, post, kb, cjob>>

\* the answer of the LLM call, or the excerpts when it raised: routes.py
\* lines 915-920 and 1064-1092, tasks/chat.py lines 216-221.  asyncio.run
\* inside a running loop raises before the LLM is called.
Generated(c, llm) ==
    IF c.flow = "process_chat_job" /\ c.running_loop
    THEN [c EXCEPT !.answer = _fallback_answer_from_sources(c.sources, ErrorText)]
    ELSE IF llm.raises
    THEN [c EXCEPT !.llm_calls = Append(@, "answer"),
                   !.answer = _fallback_answer_from_sources(c.sources, ErrorText),
                   !.events = IF c.flow = "chat_rag_stream"
                              THEN Append(@, <<"error", "generate">>) ELSE @]
    ELSE [c EXCEPT !.llm_calls = Append(@, "answer"),
                   !.answer = IF c.flow # "chat_rag_stream" THEN llm.text
                              ELSE IF strip(llm.text) # <<>> THEN strip(llm.text)
                              ELSE NoResponseAnswer]

\* the flow after assemble_context returned: the fixed answer for an empty
\* context (routes.py lines 871-913, 1056-1059, tasks/chat.py lines 197-198),
\* the LLM call otherwise
ChatGenerate ==
    /\ chat.pc = "assemble"
    /\ ctx.pc = "done"
    /\ \E c \in {[chat EXCEPT !.assembled = TRUE, !.sources = ctx.chosen,
                              !.context_blocks = ctx.context_blocks]} :
         IF no_context(c.context_blocks)
         THEN chat' = IF c.flow = "chat_rag"
                      THEN [c EXCEPT !.pc = "done", !.answer = NoDocsAnswer,
                                     !.sources = <<>>, !.outcome = "response"]
                      ELSE IF c.flow = "chat_rag_stream"
                      THEN [c EXCEPT !.pc = "post", !.answer = NoDocsAnswer]
                      ELSE [c EXCEPT !.pc = "done", !.answer = NoDocsAnswer,
                                     !.outcome = "completed"]
         ELSE \E llm \in AnswerOutcomes :
                chat' = [Generated(c, llm) EXCEPT !.pc = "post"]
    /\ UNCHANGED <<ctx, chk, ret, ing, qx, post, kb, cjob>>

\* routes.py lines 921-964 and 1094-1140, tasks/chat.py lines 222-258
ChatFinish ==
    /\ chat.pc = "post"
    /\ chat' = [chat EXCEPT
                  !.pc = "done",
                  !.answer = append_citation_legend(
                                 enforce_citation_format(chat.answer, chat.sources,
                                     chat.st.chat_enforce_citation_format),
                                 chat.sources, LegendHeader, LegendMaxItems),
                  !.outcome = IF chat.flow = "chat_rag" THEN "response"
                              ELSE IF chat.flow = "chat_rag_stream" THEN "stream_done"
                              ELSE "completed"]
    /\ UNCHANGED <<ctx, chk, ret, ing, qx, post, kb, cjob>>

NextChat ==
    \/ ChatStart \/ ChatRetrieve \/ ChatGenerate \/ ChatFinish
    \/ QxSyncInLoop \/ QxStart \/ QxHyde \/ QxFinish
    \/ AssembleStart \/ WalkStep \/ WalkEnd \/ AssembleFinish

SpecChat == InitChat /\ [][NextChat]_vars

(* ============ tasks/ingestion.py, api/routes.py: one knowledge base ======== *)
(* The documents, ingestion jobs, embedding namespace and vector collections   *)
(* of one knowledge base, with the routes that change them, two Celery         *)
(* workers running ingest_document and one running                             *)
(* migrate_kb_embedding_namespace. A step is one database transaction or one   *)
(* call of the vector store; steps of different workers interleave. A point    *)
(* is [id, doc_id, text], its id (a uuid4 in the code) being the run and the   *)
(* chunk number it was made for. The calls that may raise here are the broker  *)
(* (a task is refused), the read of a stored file, the vector store and the    *)
(* index stage of a run; the other failures of a single run are followed in    *)
(* the ingest_document section above.                                          *)

\* the tasks sent to the workers: ingestion jobs and migrations
MaxTasks == 3

KbVersions == {"v1", "v2"}
KbWorkers == {1, 2}

\* qdrant_client.py line 10
DEFAULT_EMBEDDING_VERSION == "v1"

\* file contents: blank, two sentences
KbContents ==
    { <<32, 10>>,
      <<97, 97, 32, 98, 98, 46, 32, 99, 99, 32, 97, 98, 46>> }

\* lines 131-138 and 214-221: the chunk texts of a file content
KbChunkTexts ==
    [content \in KbContents |->
        Let(chunk_text(parse_document(content), IngSettings.chunk_max_chars,
                       IngSettings.chunk_overlap_chars, IngSettings.chunk_overlap_sentences,
                       IngSettings.chunk_min_chars),
            LAMBDA chunks : [k \in 1..Len(chunks) |-> chunks[k].text])]

DocExists(s, doc_id) == doc_id \in 1..Len(s.docs) /\ s.docs[doc_id].exists

\* _update_doc_status (lines 31-43) for the document doc_id; nothing happens
\* when the row is gone
KbUpdateDocStatus(s, doc_id, status, error_message) ==
    IF ~DocExists(s, doc_id) THEN s
    ELSE [s EXCEPT !.docs[doc_id].status = status,
                   !.docs[doc_id].error = IF error_message THEN TRUE
                                          ELSE IF status # "FAILED" THEN FALSE ELSE @]

\* ingestion_tracking.py lines 79-105
update_ingestion_job_progress(s, job, progress) ==
    [s EXCEPT !.jobs[job].status = "running", !.jobs[job].progress = progress]

\* ingestion_tracking.py lines 108-118
mark_ingestion_job_completed(s, job) ==
    [s EXCEPT !.jobs[job].status = "completed", !.jobs[job].progress = 100]

\* ingestion_tracking.py lines 153-167: the open dead letters of the document
resolve_dead_letters_for_document(s, doc_id) ==
    [s EXCEPT !.dead_letters =
        [k \in 1..Len(@) |->
            IF s.jobs[@[k].job].doc = doc_id THEN [@[k] EXCEPT !.resolved = TRUE] ELSE @[k]]]

\* routes.py lines 390-433 for the document doc_id
KbQueueDocumentIngestionJob(s, doc_id, sent) ==
    Let([s EXCEPT !.jobs = Append(@, [status |-> "queued", progress |-> 0, doc |-> doc_id])],
        LAMBDA t :
            IF sent THEN [t EXCEPT !.queue = Append(@, Len(t.jobs))]
            ELSE mark_ingestion_job_failed(
                     [t EXCEPT !.docs[doc_id].status = "FAILED", !.docs[doc_id].error = TRUE],
                     Len(t.jobs), "queue"))

\* qdrant_client.py lines 24-34
ensure_collection(s, embedding_version) ==
    [s EXCEPT !.collections = @ \cup {embedding_version}]

\* qdrant_client.py lines 71-84 for the collection of embedding_version
KbDeleteDocumentChunks(s, doc_id, embedding_version) ==
    IF embedding_version \notin s.collections THEN s
    ELSE [s EXCEPT !.points[embedding_version] = {p \in @ : p.doc_id # doc_id}]

\* qdrant_client.py lines 67-68 and the PointStruct lists of tasks/ingestion.py
KbUpsertChunks(s, embedding_version, doc_id, run, texts) ==
    [s EXCEPT !.points[embedding_version] =
        @ \cup {[id |-> <<run[1], run[2], k>>, doc_id |-> doc_id, text |-> texts[k]] :
                    k \in 1..Len(texts)}]

\* embedding_versions.py lines 75-88: the row of the active version is ACTIVE
ensure_embedding_namespace(s) ==
    [s EXCEPT !.rows[s.active_version] = "ACTIVE"]

\* embedding_versions.py lines 107-137
start_embedding_migration(s, target_version) ==
    [ensure_embedding_namespace(s) EXCEPT
        !.rows[target_version] = "MIGRATING",
        !.target_version = Some(target_version),
        !.migration_status = "RUNNING",
        !.migration_progress = 0]

\* embedding_versions.py lines 141-163
update_embedding_migration_progress(s, target_version, progress) ==
    [s EXCEPT !.target_version = Some(target_version),
              !.migration_status = "RUNNING",
              !.migration_progress = Max(0, Min(100, progress)),
              !.rows[target_version] = "MIGRATING"]

\* embedding_versions.py lines 166-206
complete_embedding_migration(s, target_version) ==
    [s EXCEPT !.active_version = target_version,
              !.target_version = None,
              !.migration_status = "IDLE",
              !.migration_progress = 100,
              !.rows = [v \in KbVersions |->
                          IF v = target_version THEN "ACTIVE"
                          ELSE IF v = s.active_version /\ @[v] # "none" THEN "INACTIVE"
                          ELSE @[v]]]

\* a failed migration that activates its target all the same
fail_embedding_migration_activating(s) ==
    [s EXCEPT !.migration_status = "FAILED",
              !.active_version = IF s.target_version.some THEN s.target_version.v ELSE @]

\* embedding_versions.py lines 209-228
fail_embedding_migration(s) ==
    [s EXCEPT !.migration_status = "FAILED",
              !.rows = IF s.target_version.some /\ @[s.target_version.v] # "none"
                       THEN [@ EXCEPT ![s.target_version.v] = "FAILED"] ELSE @]

IdleWorker == [pc |-> "wait", job |-> 0, doc |-> 0, texts |-> <<>>, version |-> "none"]
IdleMigration == [pc |-> "wait", version |-> "none", docs |-> <<>>, idx |-> 0,
                  indexed_docs |-> 0, errors |-> 0, run |-> 0, result |-> "none"]

\* an empty knowledge base: no document, the namespace row not yet created
\* (its active version is read as "v1"), no collection
InitKb ==
    /\ ctx = Idle /\ chk = Idle /\ ret = Idle /\ ing = Idle
    /\ qx = Idle /\ post = Idle /\ chat = Idle /\ cjob = Idle
    /\ kb = [pc |-> "run",
             docs |-> <<>>, jobs |-> <<>>, dead_letters |-> <<>>, queue |-> <<>>,
             active_version |-> "v1", target_version |-> None,
             migration_status |-> "IDLE", migration_progress |-> 0,
             rows |-> [v \in KbVersions |-> "none"],
             collections |-> {}, points |-> [v \in KbVersions |-> {}],
             workers |-> [w \in KbWorkers |-> IdleWorker],
             mig_queue |-> <<>>, migrations |-> 0, mig |-> IdleMigration]

KbRest == <<ctx, chk, ret, ing, qx, post, chat, cjob>>

\* routes.py lines 602-622: upload_document with a new file name and a content
\* no document of the knowledge base has
KbUpload ==
    /\ Len(kb.jobs) + kb.migrations < MaxTasks
    /\ \E content \in KbContents \ {kb.docs[d].content : d \in {e \in 1..Len(kb.docs) : kb.docs[e].exists}},
          sent \in BOOLEAN :
         kb' = KbQueueDocumentIngestionJob(
                   [kb EXCEPT !.docs = Append(@, [exists |-> TRUE, status |-> "PENDING",
                                                  content |-> content, error |-> FALSE])],
                   Len(kb.docs) + 1, sent)
    /\ UNCHANGED KbRest

\* routes.py lines 2245-2286: retry_document_ingestion
KbRetry ==
    /\ Len(kb.jobs) + kb.migrations < MaxTasks
    /\ \E doc_id \in 1..Len(kb.docs), sent \in BOOLEAN :
         /\ DocExists(kb, doc_id)
         /\ kb.docs[doc_id].status # "PROCESSING"
         /\ kb' = KbQueueDocumentIngestionJob(
                      [kb EXCEPT !.docs[doc_id].status = "PENDING",
                                 !.docs[doc_id].error = FALSE], doc_id, sent)
    /\ UNCHANGED KbRest

\* routes.py lines 2289-2326: delete_document, refused while the document is
\* PROCESSING; the chunks are removed from the collection of the default
\* embedding version, then the stored file and the row; a vector store error
\* ends the call with nothing changed
KbDeleteDocument ==
    /\ \E doc_id \in 1..Len(kb.docs), raised \in {"none", "vector store"} :
         /\ DocExists(kb, doc_id)
         /\ kb.docs[doc_id].status # "PROCESSING"
         /\ kb' = IF raised = "vector store" THEN kb
                  ELSE [KbDeleteDocumentChunks(kb, doc_id, DEFAULT_EMBEDDING_VERSION)
                            EXCEPT !.docs[doc_id].exists = FALSE]
    /\ UNCHANGED KbRest

\* routes.py lines 1745-1789: start_embedding_migration_for_kb
KbStartMigration ==
    /\ Len(kb.jobs) + kb.migrations < MaxTasks
    /\ \E target_version \in KbVersions, sent \in BOOLEAN :
         kb' = Let([start_embedding_migration(kb, target_version)
                        EXCEPT !.migrations = @ + 1],
                   LAMBDA t : IF sent THEN [t EXCEPT !.mig_queue = Append(@, target_version)]
                              ELSE fail_embedding_migration(t))
    /\ UNCHANGED KbRest

\* the worker w ends its run
KbReturn(s, w) == [s EXCEPT !.workers[w] = IdleWorker]

\* the run of the job by the worker w ends as indexed (lines 140-143, 178-183)
KbIndexed(s, w, job, doc_id) ==
    KbReturn(resolve_dead_letters_for_document(
                 mark_ingestion_job_completed(
                     KbUpdateDocStatus(s, doc_id, "INDEXED", FALSE), job), doc_id), w)

\* the run of the job by the worker w ends as failed (lines 115-118, 184-187)
KbFailed(s, w, job, doc_id, stage) ==
    KbReturn(mark_ingestion_job_failed(KbUpdateDocStatus(s, doc_id, "FAILED", TRUE),
                                       job, stage), w)

\* lines 103-154: a worker takes the next job (idle workers being alike, the
\* first one takes it), marks the document PROCESSING, reads the row and the
\* stored file, parses, chunks and embeds; the run ends here when the row is
\* gone, when a call raises or when there is no chunk
KbIngestStart(w) ==
    /\ kb.workers[w].pc = "wait"
    /\ \A u \in KbWorkers : u < w => kb.workers[u].pc # "wait"
    /\ kb.queue # <<>>
    /\ LET job == Head(kb.queue)
           doc_id == kb.jobs[job].doc
           started == update_ingestion_job_progress(
                          KbUpdateDocStatus([kb EXCEPT !.queue = Tail(@)],
                                            doc_id, "PROCESSING", FALSE), job, 5)
       IN  IF ~DocExists(kb, doc_id)
           THEN kb' = mark_ingestion_job_failed(started, job, "load")
           ELSE \E raised \in {"none", "load"} :
                  kb' = IF raised # "none" THEN KbFailed(started, w, job, doc_id, raised)
                        ELSE IF KbChunkTexts[kb.docs[doc_id].content] = <<>>
                        THEN KbIndexed(started, w, job, doc_id)
                        ELSE update_ingestion_job_progress(
                                 [started EXCEPT !.workers[w] =
                                     [pc |-> "index", job |-> job, doc |-> doc_id,
                                      texts |-> KbChunkTexts[kb.docs[doc_id].content],
                                      version |-> "none"]], job, 70)
    /\ UNCHANGED KbRest

\* lines 156-168: the embedding version is the active one of the knowledge
\* base; its collection is created when missing and the points of the
\* document are removed from it
KbIngestIndex(w) ==
    /\ kb.workers[w].pc = "index"
    /\ kb' = [KbDeleteDocumentChunks(
                  ensure_collection(ensure_embedding_namespace(kb), kb.active_version),
                  kb.workers[w].doc, kb.active_version)
                  EXCEPT !.workers[w].pc = "upsert",
                         !.workers[w].version = kb.active_version]
    /\ UNCHANGED KbRest

\* lines 169-183: the points of this run are written and the run ends as indexed
KbIngestUpsert(w) ==
    /\ kb.workers[w].pc = "upsert"
    /\ kb' = KbIndexed(KbUpsertChunks(kb, kb.workers[w].version, kb.workers[w].doc,
                                      <<"job", kb.workers[w].job>>, kb.workers[w].texts),
                       w, kb.workers[w].job, kb.workers[w].doc)
    /\ UNCHANGED KbRest

\* lines 184-187: a call of the index stage raises
KbIngestFail(w) ==
    /\ kb.workers[w].pc \in {"index", "upsert"}
    /\ kb' = KbFailed(kb, w, kb.workers[w].job, kb.workers[w].doc, "index")
    /\ UNCHANGED KbRest

\* the ids of the documents of the knowledge base in ascending order
ListedDocuments(s) ==
    SelectSeq(Idx(Len(s.docs)), LAMBDA d : s.docs[d].exists)

\* tasks/ingestion.py lines 193-207: the migration task lists the documents
KbMigrateStart ==
    /\ kb.mig.pc = "wait"
    /\ kb.mig_queue # <<>>
    /\ kb' = Let(ListedDocuments(kb), LAMBDA docs :
                [kb EXCEPT !.mig_queue = Tail(@),
                           !.mig = [pc |-> IF docs = <<>> THEN "finish" ELSE "doc",
                                    version |-> Head(kb.mig_queue), docs |-> docs, idx |-> 1,
                                    indexed_docs |-> 0, errors |-> 0, run |-> kb.mig.run + 1,
                                    result |-> "none"]])
    /\ UNCHANGED KbRest

\* tasks/ingestion.py lines 209-257: one listed document is re-indexed into
\* the target version; a call that raises adds an error; the file of a
\* deleted document cannot be read
KbMigrateDocument ==
    /\ kb.mig.pc = "doc"
    /\ LET m == kb.mig
           doc_id == m.docs[m.idx]
           total == Len(m.docs)
           next == [m EXCEPT !.idx = @ + 1, !.pc = IF m.idx = total THEN "finish" ELSE "doc"]
           progress == (m.idx * 100) \div Max(1, total)
       IN  \E raised \in IF DocExists(kb, doc_id) THEN {"none", "load", "index"} ELSE {"load"} :
             kb' = update_embedding_migration_progress(
                       IF raised = "load"
                       THEN [kb EXCEPT !.mig = [next EXCEPT !.errors = @ + 1]]
                       ELSE IF raised = "index"
                       THEN [KbDeleteDocumentChunks(ensure_collection(kb, m.version),
                                                    doc_id, m.version)
                                EXCEPT !.mig = [next EXCEPT !.errors = @ + 1]]
                       ELSE [KbUpsertChunks(
                                 KbDeleteDocumentChunks(ensure_collection(kb, m.version),
                                                        doc_id, m.version),
                                 m.version, doc_id, <<"migration", m.run>>,
                                 KbChunkTexts[kb.docs[doc_id].content])
                                EXCEPT !.mig = [next EXCEPT !.indexed_docs = @ + 1]],
                       m.version, progress)
    /\ UNCHANGED KbRest

\* tasks/ingestion.py lines 259-294
KbMigrateFinish ==
    /\ kb.mig.pc = "finish"
    /\ kb' = IF kb.mig.errors > 0
             THEN [fail_embedding_migration(kb)
                       EXCEPT !.mig = [kb.mig EXCEPT !.pc = "wait", !.result = "failed"]]
             ELSE [complete_embedding_migration(kb, kb.mig.version)
                       EXCEPT !.mig = [kb.mig EXCEPT !.pc = "wait", !.result = "completed"]]
    /\ UNCHANGED KbRest

NextKb ==
    \/ KbUpload \/ KbRetry \/ KbDeleteDocument \/ KbStartMigration
    \/ \E w \in KbWorkers :
         \/ KbIngestStart(w) \/ KbIngestIndex(w) \/ KbIngestUpsert(w) \/ KbIngestFail(w)
    \/ KbMigrateStart \/ KbMigrateDocument \/ KbMigrateFinish

SpecKb == InitKb /\ [][NextKb]_vars

(* ============ api/routes.py, tasks/chat.py: the asynchronous chat jobs ===== *)
(* The chat jobs and messages of one chat session, the broker and two Celery   *)
(* workers running process_chat_job. The broker delivers a task at least once: *)
(* a task that was sent may be delivered again. What process_chat_job computes *)
(* between its two commits (retrieval, context assembly, the LLM call) is      *)
(* followed in the chat flow section; here it either yields an answer or       *)
(* raises. A message is [role, job], job naming the chat job it was written    *)
(* for.                                                                        *)

MaxChatJobs == 2
MaxDeliveries == 3

ChatWorkers == {1, 2}

IdleChatWorker == [pc |-> "wait", job |-> 0]

\* a session with no message and no job
InitChatJob ==
    /\ ctx = Idle /\ chk = Idle /\ ret = Idle /\ ing = Idle
    /\ qx = Idle /\ post = Idle /\ chat = Idle /\ kb = Idle
    /\ cjob = [pc |-> "run", jobs |-> <<>>, messages |-> <<>>, broker |-> <<>>,
               deliveries |-> 0, workers |-> [w \in ChatWorkers |-> IdleChatWorker]]

ChatJobRest == <<ctx, chk, ret, ing, qx, post, chat, kb>>

\* routes.py lines 779-834: the USER message and the QUEUED job are committed,
\* then the task is sent; when the broker refuses it the job is FAILED
_queue_async_chat_job(s, sent) ==
    Let([s EXCEPT !.messages = Append(@, [role |-> "USER", job |-> Len(s.jobs) + 1]),
                  !.jobs = Append(@, [status |-> "QUEUED", sent |-> sent, answer |-> FALSE])],
        LAMBDA t :
            IF sent THEN [t EXCEPT !.broker = Append(@, Len(t.jobs)), !.deliveries = @ + 1]
            ELSE [t EXCEPT !.jobs[Len(t.jobs)].status = "FAILED"])

QueueAsyncChatJob ==
    /\ Len(cjob.jobs) < MaxChatJobs
    /\ cjob.deliveries < MaxDeliveries
    /\ \E sent \in BOOLEAN : cjob' = _queue_async_chat_job(cjob, sent)
    /\ UNCHANGED ChatJobRest

\* the broker delivers a task that was sent once more
Redeliver ==
    /\ cjob.deliveries < MaxDeliveries
    /\ \E job \in 1..Len(cjob.jobs) :
         /\ cjob.jobs[job].sent
         /\ cjob' = [cjob EXCEPT !.broker = Append(@, job), !.deliveries = @ + 1]
    /\ UNCHANGED ChatJobRest

\* tasks/chat.py lines 160-167: the job row is read and committed as RUNNING
process_chat_job_start(s, job) ==
    [s EXCEPT !.jobs[job].status = "RUNNING"]

\* a worker takes the next task (idle workers being alike, the first one takes it)
ProcessChatJobStart(w) ==
    /\ cjob.workers[w].pc = "wait"
    /\ \A u \in ChatWorkers : u < w => cjob.workers[u].pc # "wait"
    /\ cjob.broker # <<>>
    /\ cjob' = [process_chat_job_start(cjob, Head(cjob.broker))
                    EXCEPT !.broker = Tail(@),
                           !.workers[w] = [pc |-> "run", job |-> Head(cjob.broker)]]
    /\ UNCHANGED ChatJobRest

\* tasks/chat.py lines 236-258: the ASSISTANT message is added and the job is
\* committed as COMPLETED
process_chat_job_completed(s, job) ==
    [s EXCEPT !.messages = Append(@, [role |-> "ASSISTANT", job |-> job]),
              !.jobs[job].answer = TRUE,
              !.jobs[job].status = "COMPLETED"]

\* tasks/chat.py lines 259-270: a call raised, the transaction is rolled back
\* and the job is committed as FAILED
process_chat_job_failed(s, job) ==
    [s EXCEPT !.jobs[job].status = "FAILED"]

\* tasks/chat.py lines 169-273: the rest of the run of the worker w
ProcessChatJobFinish(w) ==
    /\ cjob.workers[w].pc = "run"
    /\ \E raised \in BOOLEAN :
         cjob' = [(IF raised THEN process_chat_job_failed(cjob, cjob.workers[w].job)
                   ELSE process_chat_job_completed(cjob, cjob.workers[w].job))
                      EXCEPT !.workers[w] = IdleChatWorker]
    /\ UNCHANGED ChatJobRest

NextChatJob ==
    \/ QueueAsyncChatJob \/ Redeliver
    \/ \E w \in ChatWorkers : ProcessChatJobStart(w) \/ ProcessChatJobFinish(w)

SpecChatJob == InitChatJob /\ [][NextChatJob]_vars

(* ----------------------- claims on assemble_context ------------------- *)

C9_AtMostMaxSources == ctx.pc = "done" => Len(ctx.chosen) <= ctx.max_sources

\* C9 amended: the number of returned sources is at most max(1, max_sources).
C9_AtMostClampedMaxSources ==
    ctx.pc = "done" => Len(ctx.chosen) <= Max(1, ctx.max_sources)

\* C9 witness: the limit cut the walk short of candidates that were left
C9_Witness ==
    /\ ctx.pc = "done"
    /\ Len(ctx.chosen) = ctx.max_sources
    /\ Len(ctx.ranked) > Len(ctx.chosen)

\* some input candidate has a snippet that is not blank
HasNonBlankCandidate == \E k \in 1..Len(ctx.sources) : strip(ctx.sources[k].snippet) # <<>>

\* C10: sources and context_blocks are non-empty exactly when some input
\* candidate has a snippet that is non-empty after trimming whitespace.
C10_NonEmptyIffNonBlank ==
    ctx.pc = "done" =>
        /\ (ctx.chosen # <<>>) <=> HasNonBlankCandidate
        /\ (ctx.context_blocks # <<>>) <=> HasNonBlankCandidate

\* C10 witness: a blank and a non-blank candidate went in, sources came out
C10_Witness ==
    /\ ctx.pc = "done"
    /\ ctx.chosen # <<>>
    /\ \E k \in 1..Len(ctx.sources) : strip(ctx.sources[k].snippet) = <<>>

(* ----------------------- claims on chunk_text ------------------------- *)

\* the units of one paragraph that _split_long_segment cannot split and that
\* are longer than max_chunk_chars: its sentences, or its words when it has
\* no sentence boundary
OversizeUnitsOf(para, max_chunk_chars) ==
    Let(strip(para), LAMBDA clean :
        IF Len(clean) <= max_chunk_chars THEN {}
        ELSE Let(IF Len(SplitSentences(clean, FALSE)) <= 1 THEN SplitWords(clean)
                 ELSE SplitSentences(clean, FALSE),
                 LAMBDA units : {units[k] : k \in {j \in 1..Len(units) :
                                                     Len(units[j]) > max_chunk_chars}}))

OversizeUnits ==
    UNION {OversizeUnitsOf(chk.paragraphs[k].text, chk.max_chunk_chars) :
             k \in 1..Len(chk.paragraphs)}

HasOversizeUnit(text) == \E u \in OversizeUnits : Contains(text, u)

\* C2 as stated: every chunk has at most max_chunk_chars characters, except a
\* chunk that contains a single word or sentence longer than that.
C2_ChunkWithinMax ==
    chk.pc = "done" =>
        \A k \in 1..Len(chk.chunks) :
            Len(chk.chunks[k].text) <= chk.max_chunk_chars \/ HasOversizeUnit(chk.chunks[k].text)

\* C2 amended: the overlap tail and the merging of short text let a chunk grow
\* to max_chunk_chars + 2 + max(overlap_chars, min_chunk_chars) + min_chunk_chars.
C2_ChunkWithinMaxPlusOverlap ==
    chk.pc = "done" =>
        \A k \in 1..Len(chk.chunks) :
            \/ Len(chk.chunks[k].text) <= chk.max_chunk_chars + 2
                   + Max(0, Max(chk.overlap_chars, chk.min_chunk_chars))
                   + Max(0, chk.min_chunk_chars)
            \/ HasOversizeUnit(chk.chunks[k].text)

\* C2 witness: several chunks, one of them longer than max_chunk_chars
\* although every word and sentence of it fits
C2_Witness ==
    /\ chk.pc = "done"
    /\ Len(chk.chunks) > 1
    /\ \E k \in 1..Len(chk.chunks) :
         Len(chk.chunks[k].text) > chk.max_chunk_chars /\ ~HasOversizeUnit(chk.chunks[k].text)

\* the chunks chunk_text has emitted when its main loop ends, before
\* duplicates are dropped
RECURSIVE EmittedBeforeDedupe(_)
EmittedBeforeDedupe(c) ==
    IF c.pc = "done" THEN c.chunks
    ELSE IF c.pc = "loop" /\ c.si > Len(c.segments) THEN emit_chunk(c).chunks
    ELSE EmittedBeforeDedupe(chunk_step(c))

\* the finished call dropped at least one duplicate and kept several chunks
DroppedDuplicate ==
    /\ chk.pc = "done"
    /\ Len(chk.chunks) >= 2
    /\ Len(EmittedBeforeDedupe(ChunkStart(chk.text, chk.max_chunk_chars, chk.overlap_chars,
                                           chk.overlap_sentences, chk.min_chunk_chars)))
         > Len(chk.chunks)

\* C13: no two chunks returned by chunk_text have the same text after
\* whitespace runs are collapsed to one space, the text is trimmed and
\* lower-cased.
C13_NoDuplicateChunks ==
    chk.pc = "done" =>
        \A i, j \in 1..Len(chk.chunks) :
            i # j => NormalizedText(chk.chunks[i].text) # NormalizedText(chk.chunks[j].text)

\* C13 witness: a call that emitted a duplicate, dropped it and returned
\* several chunks
C13_Witness == DroppedDuplicate

\* C14: chunk_index is 0, 1, ..., n-1 in list order and every chunk_count is
\* n, the length of the list that is returned.
C14_IndexAndCount ==
    chk.pc = "done" =>
        \A i \in 1..Len(chk.chunks) :
            /\ chk.chunks[i].chunk_index = i - 1
            /\ chk.chunks[i].chunk_count = Len(chk.chunks)

\* C14 witness: several chunks are returned with their numbers, after a
\* duplicate that was not the last emitted chunk was dropped
C14_Witness ==
    /\ DroppedDuplicate
    /\ chk.chunks[Len(chk.chunks)].chunk_index = Len(chk.chunks) - 1
    /\ Len(chk.chunks) >= 3

(* ----------------------- claims on hybrid_retrieve -------------------- *)

\* the call of ret with the sparse pass switched off
DenseOnly(r) ==
    retrieve_run([RetStart([query |-> r.query, query_variants |-> r.query_variants],
                           [top_k |-> r.top_k, dense_limit |-> r.dense_limit,
                            sparse_pool |-> Some(0)],
                           r.store, r.similarity) EXCEPT !.pc = "start"],
                 [some |-> FALSE, score |-> [p \in 1..Len(r.store) |-> 0]])

\* C4: when the snapshot read of the sparse pass raises or returns no point,
\* hybrid_retrieve does not fail and returns the ranking of the dense pass alone.
C4_SparseFailureDegrades ==
    /\ ret.scroll_raised => ret.pc # "raised"
    /\ (ret.pc = "returned" /\ ~ret.ce /\ ret.sparse_corpus = <<>>) => ret.out = DenseOnly(ret)

\* C5: when the embedding call or the vector search of the dense pass raises
\* for a variant, hybrid_retrieve raises and returns no list.
C5_DenseFailureRaises ==
    ret.dense_raised => (ret.pc = "raised" /\ ret.out = <<>>)

\* C5 witness: the dense pass raised for a later variant, after an earlier
\* variant had found points
C5_Witness ==
    /\ ret.dense_raised
    /\ ret.pc = "raised"
    /\ ret.dense_best # <<>>

\* the permutations of the sequence s
Perms(s) ==
    {[k \in 1..Len(s) |-> s[f[k]]] :
        f \in {g \in [1..Len(s) -> 1..Len(s)] : \A i, j \in 1..Len(s) : g[i] = g[j] => i = j}}

\* the result of the call of ret with the list vs as query_variants
ResultWithVariants(r, vs) ==
    retrieve_run(RetStart([query |-> r.query, query_variants |-> vs],
                          [top_k |-> r.top_k, dense_limit |-> r.dense_limit,
                           sparse_pool |-> r.sparse_pool],
                          r.store, r.similarity),
                 [some |-> FALSE, score |-> [p \in 1..Len(r.store) |-> 0]])

\* C6: on a fixed snapshot the result list is the same for every order of the
\* query variants, ties included.
C6_VariantOrderIrrelevant ==
    (ret.pc = "returned" /\ ~ret.ce) =>
        \A vs \in Perms(ret.query_variants) : ResultWithVariants(ret, vs) = ret.out

\* the rank of the point p in a ranked list of point ids, 0 when absent
RankIn(list, p) == IndexOf(list, p)

\* the dense and the sparse ranked lists of all variants
RankedLists == ret.dense_lists \o ret.sparse_lists

\* a and b are in the same lists
SamePresence(a, b) ==
    \A i \in 1..Len(RankedLists) :
        (RankIn(RankedLists[i], a) = 0) <=> (RankIn(RankedLists[i], b) = 0)

\* a is at a rank at least as good as b in every list
NeverWorse(a, b) ==
    \A i \in 1..Len(RankedLists) : RankIn(RankedLists[i], a) <= RankIn(RankedLists[i], b)

FinalScore(p) ==
    ret.merged[CHOOSE k \in 1..Len(ret.merged) : ret.merged[k].point_id = p].final_score

MergedIds == {ret.merged[k].point_id : k \in 1..Len(ret.merged)}

\* C7: without cross-encoder scores, of two candidates that are in the same
\* dense and sparse lists the one at the better ranks never has the lower
\* fused score.
C7_RrfMonotone ==
    (ret.pc = "returned" /\ ~ret.ce) =>
        \A a, b \in MergedIds :
            (SamePresence(a, b) /\ NeverWorse(a, b)) => FinalScore(a) >= FinalScore(b)

\* C7 witness: two candidates in the same lists, among them a dense and a
\* sparse one, one of them better in each, and its fused score is higher
C7_Witness ==
    /\ ret.pc = "returned"
    /\ ~ret.ce
    /\ \E a, b \in MergedIds :
         /\ a # b
         /\ SamePresence(a, b)
         /\ NeverWorse(a, b)
         /\ \E i \in 1..Len(ret.dense_lists) : RankIn(ret.dense_lists[i], a) > 0
         /\ \E i \in 1..Len(ret.sparse_lists) : RankIn(ret.sparse_lists[i], a) > 0
         /\ FinalScore(a) > FinalScore(b)

\* C8: a call with an explicit top_k returns at most top_k entries.
C8_AtMostTopK ==
    (ret.pc = "returned" /\ ret.top_k.some) => Len(ret.out) <= ret.top_k.v

(* ----------------------- claims on ingest_document -------------------- *)

\* the points of the document in the collection
DocPoints == {p \in ing.points : p.doc_id = ThisDoc}

\* C3: after a run returned "indexed" for a document that was indexed before,
\* the collection holds for the document exactly the chunks of this run
\* (none when the new content yields no chunk) and no chunk of an earlier run.
C3_OnlyChunksOfThisRun ==
    (ing.pc = "wait" /\ ing.result = "indexed" /\ ing.indexed_runs >= 2) =>
        /\ Cardinality(DocPoints) = Len(ing.chunks)
        /\ {p.text : p \in DocPoints} = {ing.chunks[k].text : k \in 1..Len(ing.chunks)}

(* ----------------------- claims on the answer post-processing --------- *)

\* the answer holds a marker [Source N] for a number N
HasSourceMarker(answer) ==
    \E n \in 0..(MaxLegendSources + 3) : Contains(answer, <<"[", "S", "o", "u", "r", "c", "e", " ">> \o Decimal(n) \o <<"]">>)

\* C15: enforce_citation_format applied to its own result changes nothing,
\* and an answer that already holds a [Source N] marker is returned without
\* a Citations line.
C15_EnforceIdempotent ==
    post.pc = "enforced" =>
        /\ enforce_citation_format(post.out, post.sources, post.chat_enforce_citation_format)
             = post.out
        /\ HasSourceMarker(post.answer) => post.out = strip(post.answer)

\* C15 witness: the first application appended a Citations line
C15_Witness ==
    /\ post.pc = "enforced"
    /\ post.out # strip(post.answer)
    /\ Contains(post.out, <<"C", "i", "t", "a", "t", "i", "o", "n", "s", ":", " ", "[", "S", "o", "u", "r", "c", "e", " ", "1", "]">>)

\* C16: the score lies in [0, 1], and it is 0 when there is no source or the
\* answer has no claim of at least 8 characters.
C16_ScoreBounded ==
    post.pc = "scored" =>
        /\ post.score \in 0..1000
        /\ (post.sources = <<>> \/ _split_claims(post.out) = <<>>) => post.score = 0

\* C16 witness: a scored answer that is not blank, has sources and has no
\* claim of 8 characters
C16_Witness ==
    /\ post.pc = "scored"
    /\ post.sources # <<>>
    /\ strip(post.out) # <<>>
    /\ _split_claims(post.out) = <<>>

\* the text append_citation_legend was applied to
LegendInput ==
    enforce_citation_format(post.answer, post.sources, post.chat_enforce_citation_format)

\* the 0-based indices of the cited sources that exist
CitedSources(input) ==
    Let(citation_indices(input, post.sources), LAMBDA used : {used[k] : k \in 1..Len(used)})

NameOf(idx) == source_name(post.sources[idx + 1], idx)

CitedNames(cited) == {NameOf(idx) : idx \in cited}

\* the lowest cited number that has the name
LowestOf(cited, name) ==
    CHOOSE i \in cited : NameOf(i) = name /\ \A j \in cited : NameOf(j) = name => i <= j

\* the names in the order of their lowest cited number, up to n of them
FirstCitedNames(cited, n) ==
    Let([name \in CitedNames(cited) |-> LowestOf(cited, name)], LAMBDA lowest :
        {name \in DOMAIN lowest :
            Cardinality({other \in DOMAIN lowest : lowest[other] < lowest[name]}) < n})

\* the legend line of a name: its cited numbers in ascending order
LineOf(cited, name) ==
    Let(SortedSeq({idx + 1 : idx \in {i \in cited : NameOf(i) = name}}), LAMBDA numbers :
        <<"[", "S", "o", "u", "r", "c", "e", " ">> \o Join([k \in 1..Len(numbers) |-> Decimal(numbers[k])], <<",", " ">>)
        \o <<"]", " ">> \o name)

\* out is the input followed by a blank line, the header and one line for
\* each of the names, and nothing else
LegendFor(input, cited, names) ==
    /\ Len(post.out) > Len(input)
    /\ SubSeq(post.out, 1, Len(input) + 2) = input \o <<"\n", "\n">>
    /\ Let(Runs(SubSeq(post.out, Len(input) + 3, Len(post.out)),
                LAMBDA i : post.out[Len(input) + 2 + i] # "\n"),
           LAMBDA lines :
           /\ Len(lines) = 1 + Cardinality(names)
           /\ lines[1] = LegendHeader \o <<":">>
           /\ {lines[k] : k \in 2..Len(lines)} = {LineOf(cited, name) : name \in names})

LegendWanted(input, cited) ==
    /\ cited # {}
    /\ ~Contains(LowerStr(input), LowerStr(LegendHeader \o <<":">>))

\* C20 as stated: an answer that cites sources and has no legend gets one
\* line per distinct name of a cited source with all the cited numbers of
\* that name; any other answer is returned unchanged; a second application
\* changes nothing.
C20_OneLinePerCitedName ==
    post.pc = "legend" =>
        Let(LegendInput, LAMBDA input :
        Let(CitedSources(input), LAMBDA cited :
            /\ IF LegendWanted(input, cited) THEN LegendFor(input, cited, CitedNames(cited))
               ELSE post.out = input
            /\ append_citation_legend(post.out, post.sources, LegendHeader, LegendMaxItems)
                 = post.out))

\* C20 amended: the legend has a line for the first max(1, max_items) names
\* only, in the order of their lowest cited number; the cited sources of the
\* other names are in no line.
C20_OneLinePerNameUpToMaxItems ==
    post.pc = "legend" =>
        Let(LegendInput, LAMBDA input :
        Let(CitedSources(input), LAMBDA cited :
            /\ IF LegendWanted(input, cited)
               THEN LegendFor(input, cited, FirstCitedNames(cited, Max(1, LegendMaxItems)))
               ELSE post.out = input
            /\ append_citation_legend(post.out, post.sources, LegendHeader, LegendMaxItems)
                 = post.out))

\* C20 witness: a legend was appended in which one name has several numbers
C20_Witness ==
    /\ post.pc = "legend"
    /\ LegendWanted(LegendInput, CitedSources(LegendInput))
    /\ \E i, j \in CitedSources(LegendInput) : i # j /\ NameOf(i) = NameOf(j)
    /\ Cardinality(CitedNames(CitedSources(LegendInput))) >= 2

(* ----------------------- claims on query expansion ------------------------ *)
\* the variants of a returned call are pairwise different, ignoring case
VariantsDistinct(out) ==
    \A j, k \in 1..Len(out) : j # k => LowerStr(strip(out[j])) # LowerStr(strip(out[k]))

\* C17, as stated: a returned list has at least one and at most
\* retrieval_query_expansion_max_variants elements, starts with the trimmed
\* query, and holds no two elements equal ignoring case.
C17_AtMostConfiguredMaximum ==
    qx.pc = "done" =>
        /\ Len(qx.out) >= 1
        /\ Len(qx.out) <= qx.st.retrieval_query_expansion_max_variants
        /\ qx.out[1] = strip(qx.query)
        /\ VariantsDistinct(qx.out)

\* C17, amended: a returned list has at least one and at most
\* max(1, retrieval_query_expansion_max_variants) elements, starts with the
\* trimmed query, and holds no two elements equal ignoring case.
C17_AtMostClampedMaximum ==
    qx.pc = "done" =>
        /\ Len(qx.out) >= 1
        /\ Len(qx.out) <= Max(1, qx.st.retrieval_query_expansion_max_variants)
        /\ qx.out[1] = strip(qx.query)
        /\ VariantsDistinct(qx.out)

\* a returned expansion that dropped a candidate equal to an earlier one up
\* to case and still holds more than one variant
C17_Witness ==
    /\ qx.pc = "done"
    /\ Len(qx.out) >= 2
    /\ \E j, k \in 1..Len(qx.candidates) :
         /\ j < k
         /\ qx.candidates[j] # qx.candidates[k]
         /\ LowerStr(strip(qx.candidates[j])) = LowerStr(strip(qx.candidates[k]))

\* the HyDE call was made and raised or returned blank text
HydeFailed == qx.llm # NoLlmCall /\ (qx.llm.raises \/ strip(qx.llm.text) = <<>>)

\* C18: when the HyDE LLM call raises or returns empty or whitespace-only
\* text, build_query_variants raises nothing and returns what it returns
\* with HyDE disabled: the original, keyword and semantic variants.
C18_HydeFailureOmitted ==
    HydeFailed =>
        /\ qx.pc # "raised"
        /\ qx.pc = "done" =>
             qx.out = _dedupe_variants(LexicalCandidates(strip(qx.query)),
                          Max(1, qx.st.retrieval_query_expansion_max_variants))

\* a returned expansion whose HyDE call raised
C18_Witness ==
    /\ qx.pc = "done"
    /\ qx.llm # NoLlmCall /\ qx.llm.raises
    /\ Len(qx.out) >= 2

(* ----------------------- claims on the chat flows ------------------------- *)
\* C11: in chat_rag, chat_rag_stream and process_chat_job, once context
\* assembly has yielded empty context_blocks the answer-generating LLM call
\* is never made and the request ends with the fixed no-documents answer.
C11_EmptyContextFixedAnswer ==
    (chat.pc # "idle" /\ chat.assembled /\ chat.context_blocks = <<>>) =>
        /\ \A k \in 1..Len(chat.llm_calls) : chat.llm_calls[k] # "answer"
        /\ chat.pc = "done" => chat.answer = NoDocsAnswer

\* a finished stream whose retrieval returned rows and whose context is empty
C11_Witness ==
    /\ chat.pc = "done"
    /\ chat.flow = "chat_rag_stream" /\ chat.outcome = "stream_done"
    /\ chat.assembled /\ chat.context_blocks = <<>>
    /\ chat.rows # <<>>

\* the outcome of a request whose retrieval raised: HTTP 503, the
\* retrieval-unavailable answer with its error event, or the FAILED job
RetrievalUnavailable ==
    /\ chat.flow = "chat_rag" => chat.outcome = "http_503"
    /\ chat.flow = "chat_rag_stream" =>
         /\ chat.outcome = "stream_done"
         /\ Prefix(chat.answer, 21) = <<"R", "e", "t", "r", "i", "e", "v", "a", "l", " ", "u", "n", "a", "v", "a", "i", "l", "a", "b", "l", "e">>
         /\ \E k \in 1..Len(chat.events) : chat.events[k] = <<"error", "retrieve">>
    /\ chat.flow = "process_chat_job" => chat.outcome = "failed"
    /\ chat.answer # NoDocsAnswer
    /\ chat.outcome \notin {"response", "completed"}

\* C12, as stated: when hybrid_retrieve raises, no LLM call at all is made
\* for the request and it ends in the retrieval-unavailable outcome.
C12_NoLlmCallAtAll ==
    (chat.pc # "idle" /\ chat.retrieval_raised) =>
        /\ chat.llm_calls = <<>>
        /\ chat.pc = "done" => RetrievalUnavailable

\* C12, amended: when hybrid_retrieve raises, the answer-generating LLM call
\* is never made (the HyDE call of query expansion may have been made before
\* retrieval) and the request ends in the retrieval-unavailable outcome.
C12_NoAnswerCall ==
    (chat.pc # "idle" /\ chat.retrieval_raised) =>
        /\ \A k \in 1..Len(chat.llm_calls) : chat.llm_calls[k] # "answer"
        /\ chat.pc = "done" => RetrievalUnavailable

\* a finished stream whose retrieval raised after the HyDE call
C12_Witness ==
    /\ chat.pc = "done"
    /\ chat.retrieval_raised
    /\ chat.flow = "chat_rag_stream"
    /\ chat.llm_calls = <<"hyde">>

\* the zero-based positions of rows that are the first of their document
FirstOfDocument(rows) ==
    {k \in 1..Len(rows) :
        \A m \in 1..(k - 1) : _source_identity(rows[m], m - 1) # _source_identity(rows[k], k - 1)}

C23_LostMiddlePermutation ==
    ctx.pc \in {"walk", "walked", "done"} =>
        Let(Len(ctx.ranked), LAMBDA n :
            /\ Len(ctx.arranged) = n
            /\ \A a, b \in 1..n : a < b => ctx.ranked[a].score >= ctx.ranked[b].score
            /\ \A p \in 0..(n - 1) :
                 IF p % 2 = 0 THEN ctx.arranged[(p \div 2) + 1] = ctx.ranked[p + 1]
                 ELSE ctx.arranged[n - ((p - 1) \div 2)] = ctx.ranked[p + 1]
            /\ n >= 1 => ctx.arranged[1] = ctx.ranked[1]
            /\ n >= 2 => ctx.arranged[n] = ctx.ranked[2])

\* three ranked candidates whose walking order differs from the score order
C23_Witness ==
    /\ ctx.pc = "walk"
    /\ Len(ctx.ranked) >= 3
    /\ ctx.arranged # ctx.ranked
    /\ ctx.ranked[1].score > ctx.ranked[Len(ctx.ranked)].score

\* C24: a candidate the walk did not reach, because max_sources was reached
\* or the remaining budget ran out, never scores higher than a chosen source.
C24_LeftOutNotBetter ==
    ctx.pc = "done" =>
        \A k \in ctx.i..Len(ctx.arranged), j \in 1..Len(ctx.chosen) :
            ctx.arranged[k].score <= ctx.chosen[j].score

(* ----------------------- claims on the section paths ---------------------- *)
\* the titles of a heading stack in increasing level order, joined by " > "
PathOf(heading_stack) ==
    Join(SelectSeq(heading_stack, LAMBDA title : title # <<>>), <<" ", ">", " ">>)

\* the heading on the line about to be scanned; level 0 when there is none
HeadingAhead ==
    IF chk.pc = "scan" /\ chk.li <= Len(chk.lines)
    THEN _heading_level_and_title(strip(chk.lines[chk.li]))
    ELSE NoHeading

\* C21: scanning a heading of level L leaves its title at level L, no entry
\* deeper than L and the shallower entries as they were; every paragraph
\* flushed gets the titles on the stack before the step, in level order.
C21_HeadingStackAndPaths ==
    [][ /\ HeadingAhead.level > 0 =>
             \A l \in 1..MaxHeadingLevel :
                 chk'.heading_stack[l] = IF l = HeadingAhead.level THEN HeadingAhead.title
                                         ELSE IF l > HeadingAhead.level THEN <<>>
                                         ELSE chk.heading_stack[l]
        /\ (chk.pc = "scan" /\ HeadingAhead.level = 0) => chk'.heading_stack = chk.heading_stack
        /\ chk.pc = "scan" =>
             /\ Len(chk'.paragraphs) \in {Len(chk.paragraphs), Len(chk.paragraphs) + 1}
             /\ SubSeq(chk'.paragraphs, 1, Len(chk.paragraphs)) = chk.paragraphs
             /\ Len(chk'.paragraphs) > Len(chk.paragraphs) =>
                  chk'.paragraphs[Len(chk'.paragraphs)].section = PathOf(chk.heading_stack)
      ]_vars

\* a scanned document with a paragraph under a level-2 heading and a later
\* paragraph under a level-1 heading that dropped it
C21_Witness ==
    /\ chk.pc = "loop"
    /\ \E j, k \in 1..Len(chk.paragraphs) :
         /\ j < k
         /\ chk.paragraphs[j].section = <<"b">>
         /\ chk.paragraphs[k].section = <<"a">>

(* ----------------------- claims on the chunk overlap ---------------------- *)
\* the last n sentences of text, joined by single spaces
LastSentences(text, n) ==
    Let(SplitSentences(text, FALSE), LAMBDA sentences :
        strip(Join(SubSeq(sentences, Max(1, Len(sentences) - n + 1), Len(sentences)),
                   <<" ">>)))

IsSuffix(tail, text) == Len(tail) <= Len(text) /\ Suffix(text, Len(tail)) = tail

\* what the chunk being built holds in front of "\n\n" and the segment seg
CarriedOver(current_text, seg) == Prefix(current_text, Len(current_text) - Len(seg) - 2)

\* C22: when a chunk is emitted inside the loop with overlap_chars > 0 and
\* overlap_sentences >= 1, the chunk being built next starts with a tail of
\* the emitted chunk, followed by a blank line and the segment: the last
\* overlap_sentences sentences when they fit in overlap_chars, else a suffix
\* of them, never longer than overlap_chars; with overlap_chars <= 0 the
\* chunk being built next is the segment alone.
C22_OverlapTail ==
    [][ (chk.pc = "loop" /\ chk'.pc = "loop" /\ Len(chk'.chunks) = Len(chk.chunks) + 1) =>
            Let(chk.segments[chk.si].text, LAMBDA seg :
            Let(chk'.chunks[Len(chk'.chunks)].text, LAMBDA body :
                IF chk.overlap_chars <= 0 THEN chk'.current_text = seg
                ELSE chk.overlap_sentences >= 1 =>
                       Let(CarriedOver(chk'.current_text, seg), LAMBDA tail :
                       Let(LastSentences(body, chk.overlap_sentences), LAMBDA last :
                           /\ chk'.current_text = tail \o <<"\n", "\n">> \o seg
                           /\ tail # <<>>
                           /\ Len(tail) <= chk.overlap_chars
                           /\ IF Len(last) <= chk.overlap_chars THEN tail = last
                              ELSE IsSuffix(tail, last)))))
      ]_vars

\* a chunk being built that starts with the cut last sentence of the chunk
\* emitted before it
C22_Witness ==
    /\ chk.pc = "loop"
    /\ chk.overlap_chars > 0 /\ chk.overlap_sentences >= 1
    /\ chk.chunks # <<>>
    /\ Let(LastSentences(chk.chunks[Len(chk.chunks)].text, chk.overlap_sentences), LAMBDA last :
           /\ Len(last) > chk.overlap_chars
           /\ \E n \in 1..chk.overlap_chars :
                /\ Suffix(last, n) # <<>>
                /\ Prefix(chk.current_text, n + 2) = Suffix(last, n) \o <<"\n", "\n">>)

(* ----------------------- claims on the end of an ingestion run ------------ *)
\* C30: a run of ingest_document that returns leaves the document INDEXED
\* with its job completed and no unresolved dead letter, or FAILED with its
\* job failed and one new unresolved dead letter of that job.
C30_RunEndsConsistent ==
    [][ (ing.pc \notin {"idle", "wait"} /\ ing'.pc = "wait") =>
            \/ /\ ing'.result = "indexed"
               /\ ing'.doc.status = "INDEXED"
               /\ ing'.jobs[ing.job].status = "completed"
               /\ \A k \in 1..Len(ing'.dead_letters) : ing'.dead_letters[k].resolved
            \/ /\ ing'.result = "failed"
               /\ ing'.doc.status = "FAILED"
               /\ ing'.jobs[ing.job].status = "failed"
               /\ Len(ing'.dead_letters) = Len(ing.dead_letters) + 1
               /\ SubSeq(ing'.dead_letters, 1, Len(ing.dead_letters)) = ing.dead_letters
               /\ ing'.dead_letters[Len(ing'.dead_letters)].job = ing.job
               /\ ~ing'.dead_letters[Len(ing'.dead_letters)].resolved
      ]_vars

\* a run that indexed the document after an earlier run had failed
C30_Witness ==
    /\ ing.pc = "wait"
    /\ ing.result = "indexed"
    /\ ing.doc.status = "INDEXED"
    /\ \E k \in 1..Len(ing.dead_letters) :
         ing.dead_letters[k].resolved /\ ing.dead_letters[k].stage # "queue"

(* ----------------------- claims on the knowledge base ------------------- *)

\* the points of the document in the collection of the embedding version
KbDocPoints(s, doc_id, embedding_version) ==
    {p \in s.points[embedding_version] : p.doc_id = doc_id}

\* every ingestion job of the document has finished
JobsFinished(s, doc_id) ==
    \A j \in 1..Len(s.jobs) :
        s.jobs[j].doc = doc_id => s.jobs[j].status \in {"completed", "failed"}

\* C25: with no migration started, once every ingestion job queued for a
\* document has finished, the active collection holds no more points of the
\* document than the document has chunks (no chunk is indexed twice).
C25_NoChunkIndexedTwice ==
    kb.pc = "run" =>
        \A doc_id \in 1..Len(kb.docs) :
            (kb.migrations = 0 /\ DocExists(kb, doc_id) /\ JobsFinished(kb, doc_id)) =>
                Cardinality(KbDocPoints(kb, doc_id, kb.active_version))
                    <= Len(KbChunkTexts[kb.docs[doc_id].content])

\* C26: right after delete_document succeeded for a document, the active
\* collection of the knowledge base holds no point of that document.
C26_DeletedChunksGone ==
    [][ \A doc_id \in 1..Len(kb.docs) :
            (kb.docs[doc_id].exists /\ ~kb'.docs[doc_id].exists) =>
                KbDocPoints(kb', doc_id, kb'.active_version) = {}
      ]_vars

\* C27: when a migration completes and the active version switches, every
\* INDEXED document of the knowledge base has its chunks in the new active
\* collection.
C27_IndexedDocumentsMigrated ==
    [][ (kb.mig.pc = "finish" /\ kb'.mig.result = "completed"
            /\ kb'.active_version # kb.active_version) =>
            \A doc_id \in 1..Len(kb'.docs) :
                (kb'.docs[doc_id].exists /\ kb'.docs[doc_id].status = "INDEXED") =>
                    {KbChunkTexts[kb'.docs[doc_id].content][k] :
                        k \in 1..Len(KbChunkTexts[kb'.docs[doc_id].content])}
                    \subseteq {p.text : p \in KbDocPoints(kb', doc_id, kb'.active_version)}
      ]_vars

\* C28: the active version changes only in the step that ends a migration
\* task which re-indexed every listed document without error, and it changes
\* to the target of that task; a task that ends with an error leaves the
\* migration FAILED and the active version as it was.
C28_SwitchOnlyAfterCleanMigration ==
    [][ /\ kb'.active_version # kb.active_version =>
              /\ kb.mig.pc = "finish"
              /\ kb.mig.errors = 0
              /\ kb.mig.indexed_docs = Len(kb.mig.docs)
              /\ kb'.active_version = kb.mig.version
        /\ (kb.mig.pc = "finish" /\ kb'.mig.pc = "wait" /\ kb.mig.errors > 0) =>
              /\ kb'.migration_status = "FAILED"
              /\ kb'.active_version = kb.active_version
      ]_vars

\* a migration that re-indexed two documents has switched the active version
C28_Witness ==
    /\ kb.pc = "run"
    /\ kb.mig.pc = "wait"
    /\ kb.mig.result = "completed"
    /\ Len(kb.mig.docs) = 2
    /\ kb.active_version = "v2"
    /\ kb.migration_status = "IDLE"

(* ----------------------- claims on the chat jobs -------------------------- *)

\* the number of ASSISTANT messages written for the job
AssistantMessages(s, job) ==
    Cardinality({k \in 1..Len(s.messages) :
                    s.messages[k].role = "ASSISTANT" /\ s.messages[k].job = job})

ChatJobMoves ==
    {<<"QUEUED", "RUNNING">>, <<"RUNNING", "COMPLETED">>, <<"RUNNING", "FAILED">>,
     <<"QUEUED", "FAILED">>}

\* C29: the status of a chat job changes only along QUEUED -> RUNNING ->
\* COMPLETED or FAILED, or QUEUED -> FAILED; a job has at most one ASSISTANT
\* message, and it is added in the step that makes the job COMPLETED.
C29_JobStatusAndReply ==
    [][ \A job \in 1..Len(cjob.jobs) :
            /\ cjob'.jobs[job].status # cjob.jobs[job].status =>
                   <<cjob.jobs[job].status, cjob'.jobs[job].status>> \in ChatJobMoves
            /\ AssistantMessages(cjob', job) <= 1
            /\ AssistantMessages(cjob', job) # AssistantMessages(cjob, job) =>
                   cjob'.jobs[job].status = "COMPLETED"
      ]_vars

====
